---- MODULE Spec2Model ----
(***************************************************************************)
(* Document structuring and normalisation engine of the Pepsi_Order        *)
(* backend: SuryaOCRService (backend/app/services/ocr_service.py) and      *)
(* normalize_document (backend/app/utils/normalization.py).                *)
(*                                                                         *)
(* Text is a TLA+ string; the character at position i is SubSeq(s, i, i).  *)
(* An Optional value is a sequence of length 0 (None) or 1 (the value).    *)
(* A Decimal is [m |-> mantissa, e |-> number of fraction digits].         *)
(* A float ratio is kept exact as [n |-> numerator, d |-> denominator].    *)
(***************************************************************************)
EXTENDS Integers, Sequences, FiniteSets, TLC

(***************************************************************************)
(* Bounds of the model.                                                    *)
(***************************************************************************)
MaxPages == 2
MaxLines == 2

None == <<>>
Some(v) == <<v>>

Max2(a, b) == IF a >= b THEN a ELSE b
Min2(a, b) == IF a <= b THEN a ELSE b
SetMax(S) == CHOOSE x \in S : \A y \in S : y <= x
SetMin(S) == CHOOSE x \in S : \A y \in S : x <= y
Abs(a) == IF a < 0 THEN -a ELSE a

RECURSIVE Pow10(_)
Pow10(k) == IF k = 0 THEN 1 ELSE 10 * Pow10(k - 1)

RECURSIVE FlattenSeq(_)
FlattenSeq(ss) == IF ss = <<>> THEN <<>> ELSE Head(ss) \o FlattenSeq(Tail(ss))

RECURSIVE SeqSum(_)
SeqSum(s) == IF s = <<>> THEN 0 ELSE Head(s) + SeqSum(Tail(s))

(***************************************************************************)
(* Characters and the str methods the code uses.                           *)
(***************************************************************************)
Digit == {"0", "1", "2", "3", "4", "5", "6", "7", "8", "9"}
LowerAlpha == {"a", "b", "c", "d", "e", "f", "g", "h", "i", "j", "k", "l", "m",
               "n", "o", "p", "q", "r", "s", "t", "u", "v", "w", "x", "y", "z"}
UpperAlpha == {"A", "B", "C", "D", "E", "F", "G", "H", "I", "J", "K", "L", "M",
               "N", "O", "P", "Q", "R", "S", "T", "U", "V", "W", "X", "Y", "Z"}
Alpha == LowerAlpha \cup UpperAlpha
WhiteSpace == {" ", "\t", "\n", "\r", "\f"}
Glyphs == {"₹", "$", "€", "£"}

CharAt(s, i) == SubSeq(s, i, i)

UpperToLower ==
  [c \in UpperAlpha |->
     CASE c = "A" -> "a" [] c = "B" -> "b" [] c = "C" -> "c" [] c = "D" -> "d"
       [] c = "E" -> "e" [] c = "F" -> "f" [] c = "G" -> "g" [] c = "H" -> "h"
       [] c = "I" -> "i" [] c = "J" -> "j" [] c = "K" -> "k" [] c = "L" -> "l"
       [] c = "M" -> "m" [] c = "N" -> "n" [] c = "O" -> "o" [] c = "P" -> "p"
       [] c = "Q" -> "q" [] c = "R" -> "r" [] c = "S" -> "s" [] c = "T" -> "t"
       [] c = "U" -> "u" [] c = "V" -> "v" [] c = "W" -> "w" [] c = "X" -> "x"
       [] c = "Y" -> "y" [] c = "Z" -> "z"]

RECURSIVE StrLower(_)
\* str.lower()
StrLower(s) ==
  LET LowerChar(c) == IF c \in DOMAIN UpperToLower THEN UpperToLower[c] ELSE c
  IN  IF Len(s) = 0 THEN "" ELSE LowerChar(CharAt(s, 1)) \o StrLower(SubSeq(s, 2, Len(s)))

\* str.strip()
StrStrip(s) ==
  LET keep == {i \in 1..Len(s) : CharAt(s, i) \notin WhiteSpace}
  IN  IF keep = {} THEN "" ELSE SubSeq(s, SetMin(keep), SetMax(keep))

\* x in s, for a one-character x
HasChar(s, c) == \E i \in 1..Len(s) : CharAt(s, i) = c

\* s.count(c)
CountChar(s, c) == Cardinality({i \in 1..Len(s) : CharAt(s, i) = c})

\* s.rfind(c): 0-based index of the last occurrence, -1 when there is none
RFind(s, c) ==
  LET at == {i \in 1..Len(s) : CharAt(s, i) = c}
  IN  IF at = {} THEN -1 ELSE SetMax(at) - 1

RECURSIVE StrReplace(_, _, _)
\* s.replace(c, by), for a one-character c
StrReplace(s, c, by) ==
  IF Len(s) = 0 THEN ""
  ELSE (IF CharAt(s, 1) = c THEN by ELSE CharAt(s, 1))
         \o StrReplace(SubSeq(s, 2, Len(s)), c, by)

RECURSIVE StrKeep(_, _)
\* re.sub(r"[^...]", "", s): the characters of s that are in the set keep
StrKeep(s, keep) ==
  IF Len(s) = 0 THEN ""
  ELSE (IF CharAt(s, 1) \in keep THEN CharAt(s, 1) ELSE "")
         \o StrKeep(SubSeq(s, 2, Len(s)), keep)

RECURSIVE StrJoin(_, _)
\* sep.join(parts)
StrJoin(parts, sep) ==
  IF parts = <<>> THEN ""
  ELSE IF Len(parts) = 1 THEN parts[1]
  ELSE parts[1] \o sep \o StrJoin(Tail(parts), sep)

RECURSIVE SelectStr(_)
\* filter(None, strings): the non-empty ones
SelectStr(parts) ==
  IF parts = <<>> THEN <<>>
  ELSE (IF Head(parts) = "" THEN <<>> ELSE <<Head(parts)>>) \o SelectStr(Tail(parts))

(***************************************************************************)
(* Regular expressions (module re), as syntax trees.  Ends(re, s, i) is    *)
(* the set of positions at which a match of re that starts at position i   *)
(* of s can end (the position after its last character).                   *)
(***************************************************************************)
Cls(cs) == [t |-> "cls", cs |-> cs]
Cat(rs) == [t |-> "seq", rs |-> rs]
Alt(rs) == [t |-> "alt", rs |-> rs]
Rep(r, lo, hi) == [t |-> "rep", r |-> r, lo |-> lo, hi |-> hi]
Star(r) == Rep(r, 0, -1)
Plus(r) == Rep(r, 1, -1)
Opt(r) == Rep(r, 0, 1)
WordB == [t |-> "wb"]
Bol == [t |-> "bol"]
Eol == [t |-> "eol"]
Lit(str) == Cat([i \in 1..Len(str) |-> Cls({CharAt(str, i)})])
ReDigit == Cls(Digit)
ReSpace == Cls(WhiteSpace)

RECURSIVE Ends(_, _, _)
RECURSIVE SeqEnds(_, _, _, _)
RECURSIVE RepEnds(_, _, _, _, _)
Ends(re, s, i) ==
  LET \* \w at position k of s
      IsWordAt(k) == k >= 1 /\ k <= Len(s) /\ CharAt(s, k) \in Alpha \cup Digit \cup {"_"}
  IN
  CASE re.t = "cls" -> IF i <= Len(s) /\ CharAt(s, i) \in re.cs THEN {i + 1} ELSE {}
    [] re.t = "wb" -> IF IsWordAt(i - 1) # IsWordAt(i) THEN {i} ELSE {}
    [] re.t = "bol" -> IF i = 1 THEN {i} ELSE {}
    [] re.t = "eol" -> IF i = Len(s) + 1 THEN {i} ELSE {}
    [] re.t = "seq" -> SeqEnds(re.rs, 1, s, {i})
    [] re.t = "alt" -> UNION {Ends(re.rs[k], s, i) : k \in 1..Len(re.rs)}
    [] re.t = "rep" -> RepEnds(re, 0, s, {i}, {})

\* the ends of rs[k], rs[k+1], ... matched in turn from any position of from
SeqEnds(rs, k, s, from) ==
  IF k > Len(rs) \/ from = {} THEN from
  ELSE SeqEnds(rs, k + 1, s, UNION {Ends(rs[k], s, j) : j \in from})

\* the ends after n, n+1, ... repetitions; from holds the ends after exactly n
RepEnds(re, n, s, from, acc) ==
  LET acc2 == IF n >= re.lo THEN acc \cup from ELSE acc
      next == UNION {Ends(re.r, s, j) : j \in from} \ (IF n >= re.lo THEN acc2 ELSE {})
  IN  IF from = {} \/ (re.hi >= 0 /\ n >= re.hi) THEN acc2
      ELSE RepEnds(re, n + 1, s, next, acc2)

\* pattern.match(s): a match starting at the beginning of s
ReMatch(re, s) == Ends(re, s, 1) # {}
\* pattern.search(s): a match starting anywhere
ReSearch(re, s) == \E i \in 1..(Len(s) + 1) : Ends(re, s, i) # {}

RECURSIVE FindAllNonSpace(_)
\* re.findall(r"\S+", s)
FindAllNonSpace(s) ==
  LET starts == {i \in 1..Len(s) : CharAt(s, i) \notin WhiteSpace}
  IN  IF starts = {} THEN <<>>
      ELSE LET b == SetMin(starts)
               stops == {j \in b..Len(s) : CharAt(s, j) \in WhiteSpace}
               e == IF stops = {} THEN Len(s) ELSE SetMin(stops) - 1
           IN  <<SubSeq(s, b, e)>> \o FindAllNonSpace(SubSeq(s, e + 1, Len(s)))

RECURSIVE SplitOn2Spaces(_)
\* re.split(r"\s{2,}", s)
SplitOn2Spaces(s) ==
  LET gaps == {i \in 1..(Len(s) - 1) :
                 CharAt(s, i) \in WhiteSpace /\ CharAt(s, i + 1) \in WhiteSpace}
  IN  IF gaps = {} THEN <<s>>
      ELSE LET b == SetMin(gaps)
               rest == {j \in b..Len(s) : CharAt(s, j) \notin WhiteSpace}
               e == IF rest = {} THEN Len(s) + 1 ELSE SetMin(rest)
           IN  <<SubSeq(s, 1, b - 1)>> \o SplitOn2Spaces(SubSeq(s, e, Len(s)))

RECURSIVE StrToInt(_)
\* int(s) for a string of digits
StrToInt(s) ==
  LET DigitVal(c) ==
        CASE c = "0" -> 0 [] c = "1" -> 1 [] c = "2" -> 2 [] c = "3" -> 3 [] c = "4" -> 4
          [] c = "5" -> 5 [] c = "6" -> 6 [] c = "7" -> 7 [] c = "8" -> 8 [] c = "9" -> 9
  IN  IF Len(s) = 0 THEN 0
      ELSE 10 * StrToInt(SubSeq(s, 1, Len(s) - 1)) + DigitVal(CharAt(s, Len(s)))

RECURSIVE StrUpper(_)
\* str.upper()
StrUpper(s) ==
  LET CharUpper(c) ==
        IF \E u \in UpperAlpha : UpperToLower[u] = c
        THEN CHOOSE u \in UpperAlpha : UpperToLower[u] = c
        ELSE c
  IN  IF Len(s) = 0 THEN ""
      ELSE CharUpper(CharAt(s, 1)) \o StrUpper(SubSeq(s, 2, Len(s)))

RECURSIVE StrSplitFirst(_, _)
\* s.split(c)[0]
StrSplitFirst(s, c) ==
  IF Len(s) = 0 \/ CharAt(s, 1) = c THEN ""
  ELSE CharAt(s, 1) \o StrSplitFirst(SubSeq(s, 2, Len(s)), c)

RECURSIVE RStripChar(_, _)
\* s.rstrip(c)
RStripChar(s, c) ==
  IF Len(s) > 0 /\ CharAt(s, Len(s)) = c THEN RStripChar(SubSeq(s, 1, Len(s) - 1), c)
  ELSE s

RECURSIVE ZeroPad(_, _)
\* str.zfill(width)
ZeroPad(str, width) == IF Len(str) >= width THEN str ELSE ZeroPad("0" \o str, width)

RECURSIVE ReplaceDoubleSpace(_)
\* s.replace("  ", " ")
ReplaceDoubleSpace(s) ==
  IF Len(s) < 2 THEN s
  ELSE IF SubSeq(s, 1, 2) = "  " THEN " " \o ReplaceDoubleSpace(SubSeq(s, 3, Len(s)))
  ELSE CharAt(s, 1) \o ReplaceDoubleSpace(SubSeq(s, 2, Len(s)))

\* set(s) of a list
SeqRange(s) == {s[k] : k \in 1..Len(s)}

\* text[b .. the longest end of a match of re at b)
LongestFrom(re, text, b) == SubSeq(text, b, SetMax(Ends(re, text, b)) - 1)

\* match.group(0) of the leftmost match of re in text, the quantifiers of re
\* being greedy: the longest match at the leftmost start
SearchGroup0(re, text) ==
  LongestFrom(re, text, SetMin({i \in 1..(Len(text) + 1) : Ends(re, text, i) # {}}))

(***************************************************************************)
(* Numbers.  A float that is a quotient of integers is kept exact as       *)
(* Rat(n, d).  A Decimal is Dec(m, e), the integer m scaled by 10^-e; the  *)
(* negative zero that Decimal("-0") gives carries the field neg.           *)
(***************************************************************************)
Rat(n, d) == [n |-> n, d |-> d]
RatZero == Rat(0, 1)
RatOne == Rat(1, 1)
RatLess(a, b) == a.n * b.d < b.n * a.d

Dec(m, e) == [m |-> m, e |-> e]
DecNegZero(e) == [m |-> 0, e |-> e, neg |-> TRUE]
\* a + b: the exponent is the larger one; a zero sum is negative only when
\* both operands are negative zeros
DecAdd(a, b) ==
  IF "neg" \in DOMAIN a /\ "neg" \in DOMAIN b THEN DecNegZero(Max2(a.e, b.e))
  ELSE Dec(a.m * Pow10(Max2(a.e, b.e) - a.e) + b.m * Pow10(Max2(a.e, b.e) - b.e),
           Max2(a.e, b.e))
\* a - b, which is a + (-b)
DecSub(a, b) ==
  LET DecNeg(x) ==
        IF x.m # 0 THEN Dec(-x.m, x.e)
        ELSE IF "neg" \in DOMAIN x THEN Dec(0, x.e) ELSE DecNegZero(x.e)
  IN  DecAdd(a, DecNeg(b))
DecAbs(a) == Dec(Abs(a.m), a.e)
\* a <= b and a == b
DecLeq(a, b) == a.m * Pow10(b.e) <= b.m * Pow10(a.e)
DecEq(a, b) == a.m * Pow10(b.e) = b.m * Pow10(a.e)

RECURSIVE DecSum(_)
\* sum(values, start=Decimal("0"))
DecSum(values) ==
  IF values = <<>> THEN Dec(0, 0)
  ELSE DecAdd(DecSum(SubSeq(values, 1, Len(values) - 1)), values[Len(values)])

\* Decimal(text): Some(value), or None for InvalidOperation, for a text made
\* of digits, "." and "-"
ToDecimal(text) ==
  LET \* the strings Decimal() takes among those: -?(\d+(\.\d*)?|\.\d+)
      decimal_pattern ==
        Cat(<<Bol, Opt(Cls({"-"})),
              Alt(<<Cat(<<Plus(ReDigit), Opt(Cat(<<Cls({"."}), Star(ReDigit)>>))>>),
                    Cat(<<Cls({"."}), Plus(ReDigit)>>)>>),
              Eol>>)
      \* m: the digits read as an integer; e: the number of digits after "."
      DecimalOf(m, e) ==
        IF CharAt(text, 1) = "-" THEN (IF m = 0 THEN DecNegZero(e) ELSE Dec(-m, e))
        ELSE Dec(m, e)
  IN  IF ~ReMatch(decimal_pattern, text) THEN None
      ELSE Some(DecimalOf(StrToInt(StrKeep(text, Digit)),
                          IF RFind(text, ".") < 0 THEN 0
                          ELSE Len(text) - (RFind(text, ".") + 1)))

\* format(value, "f")
DecFormat(value) ==
  (IF value.m < 0 \/ "neg" \in DOMAIN value THEN "-" ELSE "")
    \o ToString(Abs(value.m) \div Pow10(value.e))
    \o (IF value.e > 0
        THEN "." \o ZeroPad(ToString(Abs(value.m) % Pow10(value.e)), value.e)
        ELSE "")

\* a dict is a function on its keys; NoMeta is the empty dict
NoMeta == [k \in {} |-> ""]
\* d.update(other)
DictUpdate(d, other) == other @@ d

(***************************************************************************)
(* datetime.strptime(text, fmt) for a format of three directives and two   *)
(* separators, "%d/%m/%Y": Some([year, month, day]), None for ValueError.  *)
(* strptime matches the regular expression it builds from the format       *)
(* (re.IGNORECASE) and wants the whole text consumed.                      *)
(***************************************************************************)
Strptime(text, fmt) ==
  LET MonthAbbr == <<"jan", "feb", "mar", "apr", "may", "jun", "jul", "aug", "sep",
                     "oct", "nov", "dec">>
      MonthFull == <<"january", "february", "march", "april", "may", "june", "july",
                     "august", "september", "october", "november", "december">>
      \* the regular expression of one directive (class TimeRE of _strptime)
      DirectiveRe(letter) ==
        CASE letter = "d" ->
               Alt(<<Cat(<<Cls({"3"}), Cls({"0", "1"})>>), Cat(<<Cls({"1", "2"}), ReDigit>>),
                     Cat(<<Cls({"0"}), Cls(Digit \ {"0"})>>), Cls(Digit \ {"0"}),
                     Cat(<<Cls({" "}), Cls(Digit \ {"0"})>>)>>)
          [] letter = "m" ->
               Alt(<<Cat(<<Cls({"1"}), Cls({"0", "1", "2"})>>),
                     Cat(<<Cls({"0"}), Cls(Digit \ {"0"})>>), Cls(Digit \ {"0"})>>)
          [] letter = "Y" -> Rep(ReDigit, 4, 4)
          [] letter = "y" -> Rep(ReDigit, 2, 2)
          [] letter = "b" -> Alt([k \in 1..12 |-> Lit(MonthAbbr[k])])
          [] letter = "B" -> Alt([k \in 1..12 |-> Lit(MonthFull[k])])
      SeparatorRe(c) == IF c = " " THEN Plus(ReSpace) ELSE Cls({c})
      FormatRe ==
        Cat(<<Bol, DirectiveRe(CharAt(fmt, 2)), SeparatorRe(CharAt(fmt, 3)),
              DirectiveRe(CharAt(fmt, 5)), SeparatorRe(CharAt(fmt, 6)),
              DirectiveRe(CharAt(fmt, 8)), Eol>>)
      \* whether low[k] is the separator c of the format (a space stands for \s+)
      IsSep(low, c, k) ==
        IF c = " " THEN CharAt(low, k) \in WhiteSpace ELSE CharAt(low, k) = c
      \* the first index after s that starts a field, s being an index of separator c
      FieldStart(low, c, s) ==
        SetMin({k \in (s + 1)..Len(low) : ~IsSep(low, c, k) \/ c # " "})
      \* the first index from b on that holds the separator c
      SepFrom(low, c, b) == SetMin({k \in b..Len(low) : IsSep(low, c, k)})
      ThreeFields(low, s1, b2, s2, b3) ==
        <<SubSeq(low, 1, s1 - 1), SubSeq(low, b2, s2 - 1), SubSeq(low, b3, Len(low))>>
      FieldsFromSecondSep(low, s1, b2, s2) ==
        ThreeFields(low, s1, b2, s2, FieldStart(low, CharAt(fmt, 6), s2))
      FieldsFromSecond(low, s1, b2) ==
        FieldsFromSecondSep(low, s1, b2, SepFrom(low, CharAt(fmt, 6), b2))
      FieldsFromFirstSep(low, s1) ==
        FieldsFromSecond(low, s1, FieldStart(low, CharAt(fmt, 3), s1))
      \* the three fields of a text that FormatRe matches
      FormatFields(low) == FieldsFromFirstSep(low, SepFrom(low, CharAt(fmt, 3), 1))
      \* the field of the directive letter
      FieldOf(fields, letter) ==
        fields[((CHOOSE k \in {2, 5, 8} : CharAt(fmt, k) = letter) + 1) \div 3]
      MonthLetter == CHOOSE l \in {"m", "b", "B"} : HasChar(fmt, l)
      MonthOf(field) ==
        IF MonthLetter = "b" THEN CHOOSE k \in 1..12 : MonthAbbr[k] = field
        ELSE IF MonthLetter = "B" THEN CHOOSE k \in 1..12 : MonthFull[k] = field
        ELSE StrToInt(StrStrip(field))
      \* %y: 69..99 are 1969..1999, 0..68 are 2000..2068
      Pivot(yy) == IF yy <= 68 THEN 2000 + yy ELSE 1900 + yy
      YearOf(fields) ==
        IF HasChar(fmt, "Y") THEN StrToInt(FieldOf(fields, "Y"))
        ELSE Pivot(StrToInt(FieldOf(fields, "y")))
      IsLeap(year) == year % 4 = 0 /\ (year % 100 # 0 \/ year % 400 = 0)
      DaysInMonth(year, month) ==
        IF month = 2 THEN (IF IsLeap(year) THEN 29 ELSE 28)
        ELSE IF month \in {4, 6, 9, 11} THEN 30 ELSE 31
      \* datetime(year, month, day): None for ValueError
      CheckedDate(year, month, day) ==
        IF year < 1 \/ day > DaysInMonth(year, month) THEN None
        ELSE Some([year |-> year, month |-> month, day |-> day])
      DateOfFields(fields) ==
        CheckedDate(YearOf(fields), MonthOf(FieldOf(fields, MonthLetter)),
                    StrToInt(StrStrip(FieldOf(fields, "d"))))
      StrptimeLower(low) ==
        IF ~ReMatch(FormatRe, low) THEN None ELSE DateOfFields(FormatFields(low))
  IN  StrptimeLower(StrLower(text))

\* parsed.strftime("%Y-%m-%d")
IsoDate(date) ==
  ZeroPad(ToString(date.year), 4) \o "-" \o ZeroPad(ToString(date.month), 2)
    \o "-" \o ZeroPad(ToString(date.day), 2)

(***************************************************************************)
(* State.  ocr is the OCR engine's output handed to the structuring        *)
(* pipeline of extract_from_pdf: per page its pixel size and its text      *)
(* lines.  The other variables are the locals of extract_from_pdf.         *)
(***************************************************************************)
VARIABLES pc, ocr, pages, document_tokens, doc_stats, stats_trace, zones, anchors,
          tables, candidates, document_hints, normalized, fingerprint, anomalies,
          result, error

pipeVars == <<pc, ocr, pages, document_tokens, doc_stats, stats_trace, zones, anchors,
              tables, candidates, document_hints, normalized, fingerprint, anomalies,
              result, error>>


(***************************************************************************)
(* Token/Block normaliser.                                                 *)
(***************************************************************************)
RatioNotBelowZero(x, size) ==
  IF x * size <= 0 THEN RatZero ELSE Rat(Abs(x), Abs(size))

\* max(0.0, min(1.0, x / size)), the quotient kept exact
ClampRatio(x, size) ==
  IF x * size <= 0 THEN RatZero
  ELSE IF Abs(x) >= Abs(size) THEN RatOne
  ELSE Rat(Abs(x), Abs(size))

_to_relative_bbox(bbox, width, height) ==
  IF width = 0 \/ height = 0 THEN <<RatZero, RatZero, RatZero, RatZero>>
  ELSE <<ClampRatio(bbox[1], width), ClampRatio(bbox[2], height),
         ClampRatio(bbox[3], width), ClampRatio(bbox[4], height)>>

_extract_bbox(line) ==
  IF line.bbox = None THEN <<0, 0, 0, 0>> ELSE line.bbox[1]

_split_words(text) == IF text = "" THEN <<>> ELSE FindAllNonSpace(text)

\* OCRToken(...); hints is None until the token hinter sets it
OCRToken(id, text, confidence, bbox, bbox_rel, page, reading_order, token_type, block_id, order_in_block) ==
  [id |-> id, text |-> text, confidence |-> confidence, bbox |-> bbox,
   bbox_rel |-> bbox_rel, page |-> page, reading_order |-> reading_order,
   token_type |-> token_type, block_id |-> block_id,
   order_in_block |-> order_in_block, hints |-> None]

WordTokenIdNoBlock(block_id, word_index) == "w" \o ToString(word_index)
\* f"{block_id}-w{word_index}"
WordTokenId(block_id, word_index) == block_id \o "-w" \o ToString(word_index)

BlockTokensLateIncrement(line_text, confidence, bbox_abs, bbox_rel, page_index, block_id, ro) ==
  <<OCRToken(block_id \o "-line", line_text, confidence, bbox_abs, bbox_rel,
             page_index, ro + 1, "line", block_id, None)>>
  \o [k \in 1..Len(_split_words(line_text)) |->
        OCRToken(WordTokenId(block_id, k - 1), _split_words(line_text)[k], confidence,
                 bbox_abs, bbox_rel, page_index, ro + k, "word", block_id, Some(k - 1))]

\* block_tokens: the line token, then the word tokens.  ro is the value of
\* the reading_order counter before the line.
BlockTokens(line_text, confidence, bbox_abs, bbox_rel, page_index, block_id, ro) ==
  <<OCRToken(block_id \o "-line", line_text, confidence, bbox_abs, bbox_rel,
             page_index, ro + 1, "line", block_id, None)>>
  \o [k \in 1..Len(_split_words(line_text)) |->
        OCRToken(WordTokenId(block_id, k - 1), _split_words(line_text)[k], confidence,
                 bbox_abs, bbox_rel, page_index, ro + 1 + k, "word", block_id, Some(k - 1))]

\* returns the pages; all_tokens and block_map are AllTokens and AllBlocks of
\* them.  The page sizes are carried by the results (zip(surya_results, page_sizes)).
_normalise_pages(surya_results) ==
  LET RECURSIVE PageBlocks(_, _, _)
      RECURSIVE PagesFrom(_, _)
      \* OCRBlock(...) of a line, from its tokens
      OCRBlock(block_tokens) ==
        [block_id |-> block_tokens[1].block_id, block_type |-> "line",
         text |-> block_tokens[1].text, confidence |-> block_tokens[1].confidence,
         bbox |-> block_tokens[1].bbox, bbox_rel |-> block_tokens[1].bbox_rel,
         page |-> block_tokens[1].page, reading_order |-> block_tokens[1].reading_order,
         tokens |-> block_tokens]
      \* the body of the loop over the lines of a page
      LineBlock(line, page_index, line_index, width, height, ro) ==
        OCRBlock(BlockTokens(StrStrip(line.text), line.confidence, _extract_bbox(line),
                             _to_relative_bbox(_extract_bbox(line), width, height),
                             page_index,
                             "p" \o ToString(page_index) \o "-l" \o ToString(line_index),
                             ro))
      BlocksFrom(block, page_index, line_index, ro) ==
        <<block>> \o PageBlocks(page_index, line_index + 1, ro + Len(block.tokens))
      \* the blocks of the lines line_index.. of a page (line_index is 0-based)
      PageBlocks(page_index, line_index, ro) ==
        IF line_index >= Len(surya_results[page_index].text_lines) THEN <<>>
        ELSE BlocksFrom(LineBlock(surya_results[page_index].text_lines[line_index + 1],
                                  page_index, line_index, surya_results[page_index].width,
                                  surya_results[page_index].height, ro),
                        page_index, line_index, ro)
      \* OCRPage(...); blocks or None and tokens or None are the empty lists
      OCRPage(page_index, blocks) ==
        [page_number |-> page_index,
         text |-> StrJoin(SelectStr([k \in 1..Len(blocks) |-> blocks[k].text]), "\n"),
         width |-> Some(surya_results[page_index].width),
         height |-> Some(surya_results[page_index].height), blocks |-> blocks,
         tokens |-> FlattenSeq([k \in 1..Len(blocks) |-> blocks[k].tokens])]
      NextPages(page, ro) ==
        <<page>> \o PagesFrom(page.page_number + 1, ro + Len(page.tokens))
      \* the pages page_index.. of the results
      PagesFrom(page_index, ro) ==
        IF page_index > Len(surya_results) THEN <<>>
        ELSE NextPages(OCRPage(page_index, PageBlocks(page_index, 0, ro)), ro)
  IN  IF surya_results = <<>>
      THEN <<[page_number |-> 1, text |-> "", width |-> None, height |-> None,
              blocks |-> <<>>, tokens |-> <<>>]>>
      ELSE PagesFrom(1, 0)

AllTokens(ps) == FlattenSeq([k \in 1..Len(ps) |-> ps[k].tokens])
AllBlocks(ps) == FlattenSeq([k \in 1..Len(ps) |-> ps[k].blocks])


(***************************************************************************)
(* Token hinter.                                                           *)
(***************************************************************************)
EmptyStats ==
  [currency_glyphs |-> {},
   date_counts |-> [day_first |-> 0, month_first |-> 0, ambiguous |-> 0],
   numbering |-> [indian |-> 0, international |-> 0]]

DateClassSwapped(day, month) ==
  IF day > 12 /\ month <= 12 THEN "month_first"
  ELSE IF month > 12 /\ day <= 12 THEN "day_first"
  ELSE "ambiguous"

\* which counter a d/m/y date token increments
DateClass(day, month) ==
  IF day > 12 /\ month <= 12 THEN "day_first"
  ELSE IF month > 12 /\ day <= 12 THEN "month_first"
  ELSE "ambiguous"

\* the loop body with the glyph-anywhere rule ahead of the glyph-and-digit rule
HintTokenAnyGlyphFirst(token, stats) ==
  LET \* ^(?P<symbol>[₹$€£])\s*\d
      money_symbol_pattern == Cat(<<Bol, Cls(Glyphs), Star(ReSpace), ReDigit>>)
      \* ^(rs\.?|inr|usd|eur|gbp|aud|cad)$ with re.IGNORECASE: matched on the lowered text
      money_word_pattern ==
        Cat(<<Bol, Alt(<<Cat(<<Lit("rs"), Opt(Cls({"."}))>>), Lit("inr"), Lit("usd"),
                         Lit("eur"), Lit("gbp"), Lit("aud"), Lit("cad")>>), Eol>>)
      \* ^[\d,]+(?:\.\d+)?$
      money_numeric_pattern ==
        Cat(<<Bol, Plus(Cls(Digit \cup {","})), Opt(Cat(<<Cls({"."}), Plus(ReDigit)>>)),
              Eol>>)
      \* (?P<d>\d{1,2})[\/\-](?P<m>\d{1,2})[\/\-](?P<y>\d{2,4})$
      date_separators_pattern ==
        Cat(<<Rep(ReDigit, 1, 2), Cls({"/", "-"}), Rep(ReDigit, 1, 2), Cls({"/", "-"}),
              Rep(ReDigit, 2, 4), Eol>>)
      \* ^\d{4}[\/\-]\d{1,2}[\/\-]\d{1,2}$
      iso_date_pattern ==
        Cat(<<Bol, Rep(ReDigit, 4, 4), Cls({"/", "-"}), Rep(ReDigit, 1, 2),
              Cls({"/", "-"}), Rep(ReDigit, 1, 2), Eol>>)
      \* ^\d{1,2}(,\d{2})+(?:\.\d+)?$
      indian_number_pattern ==
        Cat(<<Bol, Rep(ReDigit, 1, 2), Plus(Cat(<<Cls({","}), Rep(ReDigit, 2, 2)>>)),
              Opt(Cat(<<Cls({"."}), Plus(ReDigit)>>)), Eol>>)
      \* ^\d{1,3}(,\d{3})+(?:\.\d+)?$
      international_number_pattern ==
        Cat(<<Bol, Rep(ReDigit, 1, 3), Plus(Cat(<<Cls({","}), Rep(ReDigit, 3, 3)>>)),
              Opt(Cat(<<Cls({"."}), Plus(ReDigit)>>)), Eol>>)
      \* the groups d and m of a match of date_separators_pattern
      DateGroups(text) ==
        LET seps == {i \in 1..Len(text) : CharAt(text, i) \in {"/", "-"}}
            s1 == SetMin(seps)
            s2 == SetMin(seps \ {s1})
        IN  [d |-> SubSeq(text, 1, s1 - 1), m |-> SubSeq(text, s1 + 1, s2 - 1)]
      Hints(maybe, pattern) ==
        [maybe |-> maybe, pattern |-> pattern, glyph |-> None, day_first_conf |-> None,
         format |-> None, numbering_style |-> None]
      Hinted(hints, after) == [hints |-> hints, stats |-> after]
      \* the money branch taken on a symbol or word match; symbol is "" for a word
      MoneyHint(text, symbol) ==
        Hinted(Some([Hints("money", text) EXCEPT
                       !.glyph = IF symbol # "" THEN Some(symbol) ELSE None]),
               IF symbol # "" THEN [stats EXCEPT !.currency_glyphs = @ \cup {symbol}]
               ELSE stats)
      \* the money branch taken on a glyph anywhere in the text
      GlyphHint(text, glyphs) ==
        Hinted(Some([Hints("money", text) EXCEPT !.glyph = Some(glyphs[1])]),
               [stats EXCEPT
                  !.currency_glyphs = @ \cup {glyphs[k] : k \in 1..Len(glyphs)}])
      DateHint(text, cls) ==
        Hinted(Some([Hints("date", text) EXCEPT
                       !.day_first_conf = IF cls = "day_first" THEN Some(1)
                                          ELSE IF cls = "month_first" THEN Some(0)
                                          ELSE None]),
               [stats EXCEPT !.date_counts[cls] = @ + 1])
      NumberHint(text, style) ==
        Hinted(Some([Hints("number", text) EXCEPT !.numbering_style = Some(style)]),
               [stats EXCEPT !.numbering[style] = @ + 1])
      \* the body of the loop for the stripped text of the token
      HintText(text) ==
        IF text = "" THEN Hinted(token.hints, stats)
        ELSE IF \E g \in Glyphs : HasChar(text, g)
        THEN GlyphHint(text, SelectSeq(<<"₹", "$", "€", "£">>, LAMBDA g : HasChar(text, g)))
        ELSE IF ReMatch(money_symbol_pattern, text) THEN MoneyHint(text, CharAt(text, 1))
        ELSE IF ReMatch(money_word_pattern, StrLower(text)) THEN MoneyHint(text, "")
        ELSE IF ReMatch(date_separators_pattern, text)
        THEN DateHint(text, DateClass(StrToInt(DateGroups(text).d),
                                      StrToInt(DateGroups(text).m)))
        ELSE IF ReMatch(iso_date_pattern, text)
        THEN Hinted(Some([Hints("date", text) EXCEPT !.format = Some("iso")]), stats)
        ELSE IF ReMatch(indian_number_pattern, text) THEN NumberHint(text, "indian")
        ELSE IF ReMatch(international_number_pattern, text)
        THEN NumberHint(text, "international")
        ELSE IF ReMatch(money_numeric_pattern, text) /\ HasChar(text, ",")
        THEN Hinted(Some(Hints("number", text)), stats)
        ELSE Hinted(token.hints, stats)
  IN  HintText(StrStrip(token.text))

\* one iteration of the loop of _apply_token_hints: the token's new hints and
\* the statistics after it
HintToken(token, stats) ==
  LET \* ^(?P<symbol>[₹$€£])\s*\d
      money_symbol_pattern == Cat(<<Bol, Cls(Glyphs), Star(ReSpace), ReDigit>>)
      \* ^(rs\.?|inr|usd|eur|gbp|aud|cad)$ with re.IGNORECASE: matched on the lowered text
      money_word_pattern ==
        Cat(<<Bol, Alt(<<Cat(<<Lit("rs"), Opt(Cls({"."}))>>), Lit("inr"), Lit("usd"),
                         Lit("eur"), Lit("gbp"), Lit("aud"), Lit("cad")>>), Eol>>)
      \* ^[\d,]+(?:\.\d+)?$
      money_numeric_pattern ==
        Cat(<<Bol, Plus(Cls(Digit \cup {","})), Opt(Cat(<<Cls({"."}), Plus(ReDigit)>>)),
              Eol>>)
      \* (?P<d>\d{1,2})[\/\-](?P<m>\d{1,2})[\/\-](?P<y>\d{2,4})$
      date_separators_pattern ==
        Cat(<<Rep(ReDigit, 1, 2), Cls({"/", "-"}), Rep(ReDigit, 1, 2), Cls({"/", "-"}),
              Rep(ReDigit, 2, 4), Eol>>)
      \* ^\d{4}[\/\-]\d{1,2}[\/\-]\d{1,2}$
      iso_date_pattern ==
        Cat(<<Bol, Rep(ReDigit, 4, 4), Cls({"/", "-"}), Rep(ReDigit, 1, 2),
              Cls({"/", "-"}), Rep(ReDigit, 1, 2), Eol>>)
      \* ^\d{1,2}(,\d{2})+(?:\.\d+)?$
      indian_number_pattern ==
        Cat(<<Bol, Rep(ReDigit, 1, 2), Plus(Cat(<<Cls({","}), Rep(ReDigit, 2, 2)>>)),
              Opt(Cat(<<Cls({"."}), Plus(ReDigit)>>)), Eol>>)
      \* ^\d{1,3}(,\d{3})+(?:\.\d+)?$
      international_number_pattern ==
        Cat(<<Bol, Rep(ReDigit, 1, 3), Plus(Cat(<<Cls({","}), Rep(ReDigit, 3, 3)>>)),
              Opt(Cat(<<Cls({"."}), Plus(ReDigit)>>)), Eol>>)
      \* the groups d and m of a match of date_separators_pattern
      DateGroups(text) ==
        LET seps == {i \in 1..Len(text) : CharAt(text, i) \in {"/", "-"}}
            s1 == SetMin(seps)
            s2 == SetMin(seps \ {s1})
        IN  [d |-> SubSeq(text, 1, s1 - 1), m |-> SubSeq(text, s1 + 1, s2 - 1)]
      Hints(maybe, pattern) ==
        [maybe |-> maybe, pattern |-> pattern, glyph |-> None, day_first_conf |-> None,
         format |-> None, numbering_style |-> None]
      Hinted(hints, after) == [hints |-> hints, stats |-> after]
      \* the money branch taken on a symbol or word match; symbol is "" for a word
      MoneyHint(text, symbol) ==
        Hinted(Some([Hints("money", text) EXCEPT
                       !.glyph = IF symbol # "" THEN Some(symbol) ELSE None]),
               IF symbol # "" THEN [stats EXCEPT !.currency_glyphs = @ \cup {symbol}]
               ELSE stats)
      \* the money branch taken on a glyph anywhere in the text
      GlyphHint(text, glyphs) ==
        Hinted(Some([Hints("money", text) EXCEPT !.glyph = Some(glyphs[1])]),
               [stats EXCEPT
                  !.currency_glyphs = @ \cup {glyphs[k] : k \in 1..Len(glyphs)}])
      DateHint(text, cls) ==
        Hinted(Some([Hints("date", text) EXCEPT
                       !.day_first_conf = IF cls = "day_first" THEN Some(1)
                                          ELSE IF cls = "month_first" THEN Some(0)
                                          ELSE None]),
               [stats EXCEPT !.date_counts[cls] = @ + 1])
      NumberHint(text, style) ==
        Hinted(Some([Hints("number", text) EXCEPT !.numbering_style = Some(style)]),
               [stats EXCEPT !.numbering[style] = @ + 1])
      \* the body of the loop for the stripped text of the token
      HintText(text) ==
        IF text = "" THEN Hinted(token.hints, stats)
        ELSE IF ReMatch(money_symbol_pattern, text) THEN MoneyHint(text, CharAt(text, 1))
        ELSE IF ReMatch(money_word_pattern, StrLower(text)) THEN MoneyHint(text, "")
        ELSE IF \E g \in Glyphs : HasChar(text, g)
        THEN GlyphHint(text, SelectSeq(<<"₹", "$", "€", "£">>, LAMBDA g : HasChar(text, g)))
        ELSE IF ReMatch(date_separators_pattern, text)
        THEN DateHint(text, DateClass(StrToInt(DateGroups(text).d),
                                      StrToInt(DateGroups(text).m)))
        ELSE IF ReMatch(iso_date_pattern, text)
        THEN Hinted(Some([Hints("date", text) EXCEPT !.format = Some("iso")]), stats)
        ELSE IF ReMatch(indian_number_pattern, text) THEN NumberHint(text, "indian")
        ELSE IF ReMatch(international_number_pattern, text)
        THEN NumberHint(text, "international")
        ELSE IF ReMatch(money_numeric_pattern, text) /\ HasChar(text, ",")
        THEN Hinted(Some(Hints("number", text)), stats)
        ELSE Hinted(token.hints, stats)
  IN  HintText(StrStrip(token.text))

\* stats before the loop over the tokens and after each of its iterations
StatsTrace(tokens) ==
  LET RECURSIVE From(_)
      From(acc) ==
        IF Len(acc) > Len(tokens) THEN acc
        ELSE From(Append(acc, HintToken(tokens[Len(acc)], acc[Len(acc)]).stats))
  IN  From(<<EmptyStats>>)

\* the tokens of non-empty text only, with their hints
HintedTokensWithoutBlanks(tokens) ==
  LET kept == SelectSeq(tokens, LAMBDA token : StrStrip(token.text) # "")
  IN  [k \in 1..Len(kept) |->
         [kept[k] EXCEPT !.hints = HintToken(kept[k], EmptyStats).hints]]

\* the tokens as _apply_token_hints leaves them
HintedTokens(tokens) ==
  [k \in 1..Len(tokens) |->
     [tokens[k] EXCEPT !.hints = HintToken(tokens[k], EmptyStats).hints]]

\* returns the statistics; the tokens are updated in place
_apply_token_hints(tokens) == StatsTrace(tokens)[Len(tokens) + 1]


(***************************************************************************)
(* Zone segmenter.  header_ratio = 0.2 and footer_ratio = 0.15 are the     *)
(* defaults of _build_zones; int(height * ratio) is the floor of the exact *)
(* product (the float product of an integer height rounds to the exact     *)
(* value whenever that value is an integer).                               *)
(***************************************************************************)
HeaderPercent == 20
FooterPercent == 15

\* page_sizes of extract_from_pdf: the pixel size of each page image
PageSizes(results) == [k \in 1..Len(results) |-> <<results[k].width, results[k].height>>]

\* _build_zones without the test that drops the zones of no height
BuildZonesKeepingEmpty(page_sizes) ==
  LET PageZones(page_index, width, height) ==
        LET header_height == Min2((height * HeaderPercent) \div 100, height)
            footer_height == Min2((height * FooterPercent) \div 100, height - header_height)
            body_top == header_height
            body_bottom == Max2(body_top, height - footer_height)
            zone_defs ==
              <<[zone_type |-> "header", bbox |-> <<0, 0, width, header_height>>],
                [zone_type |-> "body", bbox |-> <<0, body_top, width, body_bottom>>],
                [zone_type |-> "footer", bbox |-> <<0, body_bottom, width, height>>]>>
            kept == zone_defs
        IN  IF width <= 0 \/ height <= 0 THEN <<>>
            ELSE [k \in 1..Len(kept) |->
                    [zone_id |-> "p" \o ToString(page_index) \o "-" \o kept[k].zone_type,
                     zone_type |-> kept[k].zone_type, page |-> page_index,
                     bbox |-> kept[k].bbox,
                     bbox_rel |-> _to_relative_bbox(kept[k].bbox, width, height)]]
  IN  FlattenSeq([k \in 1..Len(page_sizes) |->
                    PageZones(k, page_sizes[k][1], page_sizes[k][2])])

\* returns the zones; zones_by_page is ZonesOfPage of them
_build_zones(page_sizes) ==
  LET PageZones(page_index, width, height) ==
        LET header_height == Min2((height * HeaderPercent) \div 100, height)
            footer_height == Min2((height * FooterPercent) \div 100, height - header_height)
            body_top == header_height
            body_bottom == Max2(body_top, height - footer_height)
            zone_defs ==
              <<[zone_type |-> "header", bbox |-> <<0, 0, width, header_height>>],
                [zone_type |-> "body", bbox |-> <<0, body_top, width, body_bottom>>],
                [zone_type |-> "footer", bbox |-> <<0, body_bottom, width, height>>]>>
            kept == SelectSeq(zone_defs, LAMBDA z : ~(z.bbox[4] - z.bbox[2] <= 0))
        IN  IF width <= 0 \/ height <= 0 THEN <<>>
            ELSE [k \in 1..Len(kept) |->
                    [zone_id |-> "p" \o ToString(page_index) \o "-" \o kept[k].zone_type,
                     zone_type |-> kept[k].zone_type, page |-> page_index,
                     bbox |-> kept[k].bbox,
                     bbox_rel |-> _to_relative_bbox(kept[k].bbox, width, height)]]
  IN  FlattenSeq([k \in 1..Len(page_sizes) |->
                    PageZones(k, page_sizes[k][1], page_sizes[k][2])])

\* zones_by_page.get(page_number, [])
ZonesOfPage(zs, page_number) == SelectSeq(zs, LAMBDA z : z.page = page_number)

(***************************************************************************)
(* Anchor detector.                                                        *)
(***************************************************************************)
ContextWindowPx == 300

\* the label table of _anchor_patterns, in its order; the patterns are
\* compiled with re.IGNORECASE and are matched on the lowered text
_anchor_patterns ==
  LET ReSpaces == Plus(ReSpace)
      ReSpaces0 == Star(ReSpace)
      ReGap == Star(Cls(WhiteSpace \cup {"-"}))
  IN
  << [label |-> "po_number",
      patterns |-> << Cat(<<WordB, Lit("po"), ReGap, Lit("no"), WordB>>),
                      Cat(<<WordB, Lit("purchase"), ReSpaces, Lit("order"), WordB>>) >>],
     [label |-> "po_date",
      patterns |-> << Cat(<<WordB, Lit("po"), ReGap, Lit("date"), WordB>>),
                      Cat(<<WordB, Lit("order"), ReSpaces, Lit("date"), WordB>>) >>],
     [label |-> "order_reference",
      patterns |-> << Cat(<<WordB, Lit("order"), ReSpaces, Lit("ref"), Opt(Lit("erence")), WordB>>),
                      Cat(<<WordB, Lit("order"), ReSpaces, Lit("id"), WordB>>) >>],
     [label |-> "bill_to",
      patterns |-> << Cat(<<WordB, Lit("bill"), ReSpaces0, Lit("to"), WordB>>),
                      Cat(<<WordB, Lit("invoicee"), WordB>>) >>],
     [label |-> "ship_to",
      patterns |-> << Cat(<<WordB, Lit("ship"), ReSpaces0, Lit("to"), WordB>>),
                      Cat(<<WordB, Lit("delivery"), ReSpaces, Lit("address"), WordB>>) >>],
     [label |-> "vendor",
      patterns |-> << Cat(<<WordB, Lit("vendor"), WordB>>),
                      Cat(<<WordB, Lit("supplier"), WordB>>) >>],
     [label |-> "invoice_number",
      patterns |-> << Cat(<<WordB, Lit("invoice"), ReSpaces0, Lit("no"), WordB>>),
                      Cat(<<WordB, Lit("invoice"), ReSpaces, Lit("number"), WordB>>) >>],
     [label |-> "invoice_date",
      patterns |-> << Cat(<<WordB, Lit("invoice"), ReSpaces0, Lit("date"), WordB>>) >>],
     [label |-> "total",
      patterns |-> << Cat(<<WordB, Alt(<<Lit("total"),
                                         Cat(<<Lit("grand"), ReSpaces, Lit("total")>>)>>),
                            WordB>>) >>],
     [label |-> "subtotal",
      patterns |-> << Cat(<<WordB, Lit("sub"), ReSpaces0, Lit("total"), WordB>>) >>],
     [label |-> "tax",
      patterns |-> << Cat(<<WordB, Lit("tax"), WordB>>),
                      Cat(<<WordB, Lit("gst"), WordB>>) >>] >>

MatchAnchorLabelLast(text, anchor_patterns) ==
  LET hit == {k \in 1..Len(anchor_patterns) :
                \E j \in 1..Len(anchor_patterns[k].patterns) :
                   ReSearch(anchor_patterns[k].patterns[j], StrLower(text))}
  IN  IF text = "" \/ hit = {} THEN None ELSE Some(anchor_patterns[SetMax(hit)].label)

\* the label of the first entry of the table with a pattern found in text,
\* None when there is none
_match_anchor_label(text, anchor_patterns) ==
  LET low == StrLower(text)
      hit == {k \in 1..Len(anchor_patterns) :
                \E j \in 1..Len(anchor_patterns[k].patterns) :
                   ReSearch(anchor_patterns[k].patterns[j], low)}
  IN  IF text = "" \/ hit = {} THEN None ELSE Some(anchor_patterns[SetMin(hit)].label)

\* [token.id for token in tokens]
TokenIds(tokens) == [k \in 1..Len(tokens) |-> tokens[k].id]

GatherContextInside(page_tokens, anchor_bbox, context_window_px, anchor_token_ids) ==
  TokenIds(SelectSeq(page_tokens,
             LAMBDA token :
               /\ token.id \notin anchor_token_ids
               /\ token.bbox[1] >= anchor_bbox[1]
               /\ token.bbox[1] < anchor_bbox[3] + context_window_px
               /\ token.bbox[2] >= anchor_bbox[2]
               /\ token.bbox[2] < anchor_bbox[4] + context_window_px))

_gather_context_tokens(page_tokens, anchor_bbox, context_window_px, anchor_token_ids) ==
  LET context_x2 == anchor_bbox[3] + context_window_px
      context_y2 == anchor_bbox[4] + context_window_px
      near == SelectSeq(page_tokens,
                LAMBDA token :
                  /\ token.id \notin anchor_token_ids
                  /\ token.bbox[1] >= anchor_bbox[1] /\ token.bbox[1] <= context_x2
                  /\ token.bbox[2] >= anchor_bbox[2] /\ token.bbox[2] <= context_y2)
  IN  TokenIds(near)

\* the type of the first zone holding the centre of bbox, None when none does
_zone_type_for_bbox(zs, bbox) ==
  LET hit == {k \in 1..Len(zs) :
                /\ 2 * zs[k].bbox[1] <= bbox[1] + bbox[3]
                /\ bbox[1] + bbox[3] <= 2 * zs[k].bbox[3]
                /\ 2 * zs[k].bbox[2] <= bbox[2] + bbox[4]
                /\ bbox[2] + bbox[4] <= 2 * zs[k].bbox[4]}
  IN  IF hit = {} THEN None ELSE Some(zs[SetMin(hit)].zone_type)

_detect_anchors(ps, zs) ==
  LET RECURSIVE AnchorsFrom(_, _, _)
      \* OCRAnchor(...) of a labelled block, found anchors having been found
      \* in the document before it: anchor_id is f"p{page}-a{len(anchors)+1}"
      OCRAnchor(page, block, found) ==
        [anchor_id |-> "p" \o ToString(page.page_number) \o "-a" \o ToString(found + 1),
         label |-> _match_anchor_label(block.text, _anchor_patterns)[1],
         text |-> block.text, page |-> page.page_number,
         bbox |-> block.bbox, bbox_rel |-> block.bbox_rel,
         zone_type |-> _zone_type_for_bbox(ZonesOfPage(zs, page.page_number), block.bbox),
         token_ids |-> TokenIds(block.tokens),
         context_token_ids |->
           _gather_context_tokens(page.tokens, block.bbox, ContextWindowPx,
                                  SeqRange(TokenIds(block.tokens))),
         context_window_px |-> ContextWindowPx]
      \* the anchors of the blocks block_index.. of page page_index and of
      \* the later pages, appended to acc
      AnchorsFrom(page_index, block_index, acc) ==
        IF page_index > Len(ps) THEN acc
        ELSE IF block_index > Len(ps[page_index].blocks)
             THEN AnchorsFrom(page_index + 1, 1, acc)
        ELSE IF _match_anchor_label(ps[page_index].blocks[block_index].text,
                                    _anchor_patterns) = None
             THEN AnchorsFrom(page_index, block_index + 1, acc)
        ELSE AnchorsFrom(page_index, block_index + 1,
                         Append(acc, OCRAnchor(ps[page_index],
                                               ps[page_index].blocks[block_index],
                                               Len(acc))))
  IN  AnchorsFrom(1, 1, <<>>)

(***************************************************************************)
(* Table detector.                                                         *)
(***************************************************************************)
\* re.search(r"\s{2,}", stripped), stripped being text.strip()
_is_table_line(text) ==
  /\ text # ""
  /\ StrStrip(text) # ""
  /\ ReSearch(Rep(ReSpace, 2, -1), StrStrip(text))

\* the stripped text as a single cell, without the split at runs of blanks
SplitTableCellsWhole(text) ==
  IF text = "" \/ StrStrip(text) = "" THEN <<>> ELSE <<StrStrip(text)>>

\* [segment.strip() for segment in re.split(r"\s{2,}", stripped) if segment.strip()]
_split_table_cells(text) ==
  LET StripParts(parts) == SelectStr([k \in 1..Len(parts) |-> StrStrip(parts[k])])
  IN  IF text = "" \/ StrStrip(text) = "" THEN <<>>
      ELSE StripParts(SplitOn2Spaces(StrStrip(text)))

NormaliseSegmentsDropExcess(segments, expected_columns) ==
  IF expected_columns <= 0 THEN segments
  ELSE IF Len(segments) = expected_columns THEN segments
  ELSE IF Len(segments) < expected_columns
       THEN segments \o [k \in 1..(expected_columns - Len(segments)) |-> ""]
  ELSE SubSeq(segments, 1, expected_columns)

_normalise_segments(segments, expected_columns) ==
  IF expected_columns <= 0 THEN segments
  ELSE IF Len(segments) = expected_columns THEN segments
  ELSE IF Len(segments) < expected_columns
       THEN segments \o [k \in 1..(expected_columns - Len(segments)) |-> ""]
  ELSE SubSeq(segments, 1, expected_columns - 1)
         \o <<StrJoin(SubSeq(segments, expected_columns, Len(segments)), " ")>>

_build_row_cells(table_id, row_index, row_bbox, segments, column_count, page_width, page_height, token_ids, is_header) ==
  LET \* max(len(segment), 1) summed over the first k segments
      Cumulative(k) == SeqSum([j \in 1..k |-> Max2(Len(segments[j]), 1)])
      \* x1 + row_width * (cumulative / total_chars), row_width = max(x2 - x1, 1.0)
      CellEdge(cumulative, total_chars) ==
        Rat(row_bbox[1] * total_chars + Max2(row_bbox[3] - row_bbox[1], 1) * cumulative,
            total_chars)
      \* _to_relative_bbox(cell_bbox, page_width, page_height): x / size clamped
      \* to [0, 1], for an exact ratio x
      ClampRat(x, size) == ClampRatio(x.n, x.d * size)
      OCRTableCell(col_index, cell_x1, cell_x2) ==
        [cell_id |-> table_id \o "-r" \o ToString(row_index) \o "c" \o ToString(col_index),
         row |-> row_index, column |-> col_index, text |-> segments[col_index + 1],
         bbox |-> <<cell_x1, row_bbox[2], cell_x2, row_bbox[4]>>,
         bbox_rel |->
           IF page_width = 0 \/ page_height = 0
           THEN <<RatZero, RatZero, RatZero, RatZero>>
           ELSE <<ClampRat(cell_x1, page_width), ClampRatio(row_bbox[2], page_height),
                  ClampRat(cell_x2, page_width), ClampRatio(row_bbox[4], page_height)>>,
         row_span |-> 1, column_span |-> 1, is_header |-> is_header,
         token_ids |-> token_ids,
         hints |-> [empty |-> StrStrip(segments[col_index + 1]) = ""]]
      \* total_chars = sum(...) or column_count
      Cells(sum_chars) ==
        [k \in 1..Len(segments) |->
           OCRTableCell(k - 1,
                        CellEdge(Cumulative(k - 1),
                                 IF sum_chars = 0 THEN column_count ELSE sum_chars),
                        CellEdge(Cumulative(k),
                                 IF sum_chars = 0 THEN column_count ELSE sum_chars))]
  IN  Cells(Cumulative(Len(segments)))

\* Some(table), or None when the run yields no table
_build_table_from_blocks(page, run_blocks, table_index, page_sizes) ==
  LET \* value or default
      OptOr(opt, default) == IF opt = None \/ opt[1] = 0 THEN default ELSE opt[1]
      table_id == "p" \o ToString(page.page_number) \o "-t" \o ToString(table_index)
      table_bbox ==
        <<SetMin({run_blocks[k].bbox[1] : k \in 1..Len(run_blocks)}),
          SetMin({run_blocks[k].bbox[2] : k \in 1..Len(run_blocks)}),
          SetMax({run_blocks[k].bbox[3] : k \in 1..Len(run_blocks)}),
          SetMax({run_blocks[k].bbox[4] : k \in 1..Len(run_blocks)})>>
      \* the cells of one row of the run
      TableRow(row_index, block, column_count, page_width, page_height) ==
        _build_row_cells(table_id, row_index, block.bbox,
                         _normalise_segments(_split_table_cells(block.text), column_count),
                         column_count, page_width, page_height, TokenIds(block.tokens),
                         row_index = 0)
      OCRTable(header_segments, page_width, page_height) ==
        [table_id |-> table_id, page |-> page.page_number, bbox |-> table_bbox,
         bbox_rel |-> _to_relative_bbox(table_bbox, page_width, page_height),
         header_rows |-> <<0>>, column_headers |-> header_segments,
         n_rows |-> Len(run_blocks), n_cols |-> Len(header_segments),
         cells |-> FlattenSeq([k \in 1..Len(run_blocks) |->
                     TableRow(k - 1, run_blocks[k], Len(header_segments),
                              page_width, page_height)])]
      TableOfRun(header_segments, page_width, page_height) ==
        IF Len(header_segments) = 0 THEN None
        ELSE IF page_width <= 0 \/ page_height <= 0 THEN None
        ELSE Some(OCRTable(header_segments, page_width, page_height))
  IN  TableOfRun(_split_table_cells(run_blocks[1].text),
                 OptOr(page.width, page_sizes[page.page_number][1]),
                 OptOr(page.height, page_sizes[page.page_number][2]))

\* page_tables of one iteration of the loop over the pages of _detect_tables
PageTables(page, page_sizes) ==
  LET RECURSIVE CandidateRuns(_, _)
      RECURSIVE TablesFrom(_, _, _)
      \* candidate_runs.append(current_run) if current_run
      FlushRun(current_run) == IF current_run # <<>> THEN <<current_run>> ELSE <<>>
      \* the maximal runs of consecutive table lines among blocks k..,
      \* current_run being the run that block k - 1 ends
      CandidateRuns(k, current_run) ==
        IF k > Len(page.blocks) THEN FlushRun(current_run)
        ELSE IF _is_table_line(StrStrip(page.blocks[k].text))
             THEN CandidateRuns(k + 1, Append(current_run, page.blocks[k]))
        ELSE FlushRun(current_run) \o CandidateRuns(k + 1, <<>>)
      \* the tables of the runs k.., appended to page_tables
      TablesFrom(runs, k, page_tables) ==
        IF k > Len(runs) THEN page_tables
        ELSE IF Len(runs[k]) < 2 THEN TablesFrom(runs, k + 1, page_tables)
        ELSE TablesFrom(runs, k + 1,
               page_tables \o _build_table_from_blocks(page, runs[k], Len(page_tables) + 1,
                                                       page_sizes))
  IN  TablesFrom(CandidateRuns(1, <<>>), 1, <<>>)

\* the declared fields of the model OCRPage (app/schemas.py)
OCRPageFields == {"page_number", "text", "width", "height", "blocks", "tokens"}

\* _detect_tables ends, for each page that has tables, with
\* page.tables = (page.tables or []) + page_tables: reading an attribute that
\* OCRPage does not declare raises AttributeError.
_detect_tables(ps, page_sizes) ==
  LET Outcome(per_page) ==
        IF (\E k \in 1..Len(per_page) : per_page[k] # <<>>) /\ "tables" \notin OCRPageFields
        THEN [raised |-> Some("AttributeError"), tables |-> <<>>]
        ELSE [raised |-> None, tables |-> FlattenSeq(per_page)]
  IN  Outcome([k \in 1..Len(ps) |-> PageTables(ps[k], page_sizes)])

(***************************************************************************)
(* Field candidate extractor.  A result (value, token) of a _find_ helper  *)
(* is Some([value |-> v, token |-> t]); (None, None) is None.              *)
(***************************************************************************)
Fields == {"po_number", "po_date", "order_reference", "vendor_name", "invoice_number",
           "invoice_date", "grand_total", "subtotal", "tax_total", "currency"}

_anchor_label_to_field(label) ==
  CASE label = "po_number" -> Some("po_number")
    [] label = "po_date" -> Some("po_date")
    [] label = "order_reference" -> Some("order_reference")
    [] label = "vendor" -> Some("vendor_name")
    [] label = "invoice_number" -> Some("invoice_number")
    [] label = "invoice_date" -> Some("invoice_date")
    [] label = "total" -> Some("grand_total")
    [] label = "subtotal" -> Some("subtotal")
    [] label = "tax" -> Some("tax_total")
    [] label = "currency" -> Some("currency")
    [] OTHER -> None

\* the loop "for token in tokens: ... return value, token" of the _find_
\* helpers: the first token (in order) whose value is not None, with its value
FirstWith(tokens, values) ==
  LET hit == {k \in 1..Len(tokens) : values[k] # None}
  IN  IF hit = {} THEN None
      ELSE Some([value |-> values[SetMin(hit)][1], token |-> tokens[SetMin(hit)]])

\* token.hints and token.hints.get("maybe") == maybe
HintIs(token, maybe) == token.hints # None /\ token.hints[1].maybe = maybe

_find_alphanumeric(tokens, exclude) ==
  LET \* [A-Za-z0-9][A-Za-z0-9\-_/]*
      pattern ==
        Cat(<<Cls(Alpha \cup Digit), Star(Cls(Alpha \cup Digit \cup {"-", "_", "/"}))>>)
      AlphanumericIn(text) ==
        IF text = "" \/ (exclude # "" /\ StrLower(text) = StrLower(exclude)) THEN None
        ELSE IF ReSearch(pattern, text) THEN Some(SearchGroup0(pattern, text))
        ELSE None
  IN  FirstWith(tokens, [k \in 1..Len(tokens) |-> AlphanumericIn(StrStrip(tokens[k].text))])

_find_date_value(tokens) ==
  LET \* \d{1,2}[\/\-]\d{1,2}[\/\-]\d{2,4}|\d{4}[\/\-]\d{1,2}[\/\-]\d{1,2}
      date_pattern ==
        Alt(<<Cat(<<Rep(ReDigit, 1, 2), Cls({"/", "-"}), Rep(ReDigit, 1, 2),
                    Cls({"/", "-"}), Rep(ReDigit, 2, 4)>>),
              Cat(<<Rep(ReDigit, 4, 4), Cls({"/", "-"}), Rep(ReDigit, 1, 2),
                    Cls({"/", "-"}), Rep(ReDigit, 1, 2)>>)>>)
      DateIn(token, text) ==
        IF text = "" THEN None
        ELSE IF HintIs(token, "date") THEN Some(text)
        ELSE IF ReMatch(date_pattern, text) THEN Some(text)
        ELSE None
  IN  FirstWith(tokens, [k \in 1..Len(tokens) |->
                           DateIn(tokens[k], StrStrip(tokens[k].text))])

_find_money_value(tokens) ==
  LET \* [₹$€£]?\s?[\d,]+(?:\.\d+)?
      money_pattern ==
        Cat(<<Opt(Cls(Glyphs)), Opt(ReSpace), Plus(Cls(Digit \cup {","})),
              Opt(Cat(<<Cls({"."}), Plus(ReDigit)>>))>>)
      \* match.group(0) when it holds a digit
      MoneyGroup(group0) == IF ReSearch(ReDigit, group0) THEN Some(group0) ELSE None
      MoneyIn(token, text) ==
        IF text = "" THEN None
        ELSE IF HintIs(token, "money") THEN Some(text)
        ELSE IF ReMatch(money_pattern, text)
        THEN MoneyGroup(LongestFrom(money_pattern, text, 1))
        ELSE None
  IN  FirstWith(tokens, [k \in 1..Len(tokens) |->
                           MoneyIn(tokens[k], StrStrip(tokens[k].text))])

_find_textual_value(tokens, min_length) ==
  LET TextualIn(text) ==
        IF Len(text) >= min_length /\ ReSearch(Cls(Alpha), text) THEN Some(text) ELSE None
  IN  FirstWith(tokens, [k \in 1..Len(tokens) |-> TextualIn(StrStrip(tokens[k].text))])

_find_currency_value(tokens) ==
  LET currency_words == {"inr", "rs", "usd", "eur", "gbp", "cad", "aud"}
      CurrencyIn(token, text) ==
        IF text = "" THEN None
        ELSE IF HintIs(token, "money") /\ token.hints[1].glyph # None
        THEN token.hints[1].glyph
        ELSE IF StrLower(text) \in currency_words THEN Some(StrUpper(text))
        ELSE None
  IN  FirstWith(tokens, [k \in 1..Len(tokens) |->
                           CurrencyIn(tokens[k], StrStrip(tokens[k].text))])

\* tokens stands for token_lookup, the dict id -> token of the document tokens
_extract_candidate_value(field, anchor, tokens) ==
  LET \* token_lookup.get(id): the last token of that id, when there is one
      LastOf(found) == IF found = <<>> THEN <<>> ELSE <<found[Len(found)]>>
      \* token_lookup[token_id] for the ids that are in it
      LookupTokens(token_ids) ==
        FlattenSeq([k \in 1..Len(token_ids) |->
                      LastOf(SelectSeq(tokens, LAMBDA t : t.id = token_ids[k]))])
      ValueIn(context_tokens) ==
        IF field \in {"po_number", "order_reference", "invoice_number"}
        THEN _find_alphanumeric(context_tokens, anchor.text)
        ELSE IF field \in {"po_date", "invoice_date"} THEN _find_date_value(context_tokens)
        ELSE IF field \in {"grand_total", "subtotal", "tax_total"}
        THEN _find_money_value(context_tokens)
        ELSE IF field = "vendor_name" THEN _find_textual_value(context_tokens, 3)
        ELSE IF field = "currency" THEN _find_currency_value(context_tokens)
        ELSE None
  IN  ValueIn(LookupTokens(anchor.token_ids \o anchor.context_token_ids))

\* FieldCandidate(value_raw, CandidateEvidence(...)) with the evidence of one token
FieldCandidate(value_raw, page, token, anchor_id, anchor_label) ==
  [value_raw |-> value_raw,
   evidence |-> [page |-> page, bbox |-> token.bbox, bbox_rel |-> token.bbox_rel,
                 anchor_id |-> anchor_id, anchor_label |-> anchor_label,
                 token_ids |-> <<token.id>>]]

\* Some(candidate), or None when the anchor yields no value
_build_candidate_from_anchor(field, anchor, tokens) ==
  LET CandidateOf(found) ==
        IF found = None \/ found[1].value = "" THEN None
        ELSE Some(FieldCandidate(found[1].value, anchor.page, found[1].token,
                                 Some(anchor.anchor_id), Some(anchor.label)))
  IN  CandidateOf(_extract_candidate_value(field, anchor, tokens))

_derive_currency_candidates(tokens) ==
  LET RECURSIVE DeriveFrom(_, _)
      \* token.hints.get("glyph") or token.text.strip()
      GlyphOrText(token) ==
        IF token.hints[1].glyph # None THEN token.hints[1].glyph[1]
        ELSE StrStrip(token.text)
      \* seen_values is the set of the values of the candidates
      Derive(token, value, acc) ==
        IF value = "" \/ value \in {acc[j].value_raw : j \in 1..Len(acc)} THEN acc
        ELSE Append(acc, FieldCandidate(value, token.page, token, None, None))
      DeriveFrom(k, acc) ==
        IF k > Len(tokens) THEN acc
        ELSE IF ~HintIs(tokens[k], "money") THEN DeriveFrom(k + 1, acc)
        ELSE DeriveFrom(k + 1, Derive(tokens[k], GlyphOrText(tokens[k]), acc))
  IN  DeriveFrom(1, <<>>)

\* the candidates dict as a function on Fields; a field is a key of the dict
\* iff its list is not empty
NoCandidates == [f \in Fields |-> <<>>]

_extract_field_candidates(ans, ps, tokens) ==
  LET RECURSIVE FromAnchors(_, _)
      \* field_candidates.setdefault(field, []).append(candidate), if candidate
      AppendCandidate(acc, field, candidate) ==
        IF candidate = None THEN acc ELSE [acc EXCEPT ![field] = @ \o candidate]
      AnchorCandidate(acc, field, anchor) ==
        IF field = None THEN acc
        ELSE AppendCandidate(acc, field[1],
                             _build_candidate_from_anchor(field[1], anchor, tokens))
      FromAnchors(k, acc) ==
        IF k > Len(ans) THEN acc
        ELSE FromAnchors(k + 1,
                         AnchorCandidate(acc, _anchor_label_to_field(ans[k].label), ans[k]))
      WithDerivedCurrency(from_anchors) ==
        IF from_anchors["currency"] = <<>>
        THEN [from_anchors EXCEPT !["currency"] = _derive_currency_candidates(tokens)]
        ELSE from_anchors
  IN  IF ans = <<>> /\ tokens = <<>> THEN NoCandidates
      ELSE WithDerivedCurrency(FromAnchors(1, NoCandidates))

(***************************************************************************)
(* Document hints.  day_first_prob is kept exact:                          *)
(* (day_first + 0.5 * ambiguous) / denominator = (2 day_first + ambiguous) *)
(* / (2 denominator).                                                      *)
(***************************************************************************)
_compute_document_hints(stats) ==
  LET day_first_count == stats.date_counts.day_first
      month_first_count == stats.date_counts.month_first
      ambiguous_count == stats.date_counts.ambiguous
      denominator == day_first_count + month_first_count + ambiguous_count
      numbering == stats.numbering
  IN  [day_first_prob |->
         IF denominator # 0
         THEN Some(Rat(2 * day_first_count + ambiguous_count, 2 * denominator))
         ELSE None,
       numbering_style |->
         IF numbering.indian # 0 \/ numbering.international # 0
         THEN (IF numbering.indian >= numbering.international
               THEN Some("indian") ELSE Some("international"))
         ELSE None,
       \* sorted(glyphs): by code point, $ < £ < € < ₹
       currency_glyphs |->
         SelectSeq(<<"$", "£", "€", "₹">>, LAMBDA g : g \in stats.currency_glyphs)]

(***************************************************************************)
(* Deterministic normaliser (app/utils/normalization.py): numbers.         *)
(***************************************************************************)
_decimal_to_str(value) ==
  LET \* text.rstrip("0").rstrip(".") if "." in text
      StripZeros(text) ==
        IF HasChar(text, ".") THEN RStripChar(RStripChar(text, "0"), ".") ELSE text
      \* text or "0"
      OrZero(text) == IF text = "" THEN "0" ELSE text
  IN  OrZero(StripZeros(DecFormat(value)))

SeparatorsFirstWins(cleaned, hints) ==
  IF CountChar(cleaned, ",") > 0 /\ CountChar(cleaned, ".") > 0 THEN
    IF RFind(cleaned, ",") < RFind(cleaned, ".")
    THEN [cleaned |-> StrReplace(StrReplace(cleaned, ".", ""), ",", "."),
          meta |-> "decimal_separator" :> ","]
    ELSE [cleaned |-> StrReplace(cleaned, ",", ""), meta |-> "decimal_separator" :> "."]
  ELSE IF CountChar(cleaned, ",") > 0 /\ CountChar(cleaned, ".") = 0 THEN
    IF hints # None /\ hints[1].numbering_style = Some("indian")
    THEN [cleaned |-> StrReplace(cleaned, ",", ""), meta |-> "grouping_style" :> "indian"]
    ELSE [cleaned |-> StrReplace(cleaned, ",", "."), meta |-> "decimal_separator" :> ","]
  ELSE [cleaned |-> StrReplace(cleaned, ",", ""),
        meta |-> IF HasChar(cleaned, ".") THEN "decimal_separator" :> "." ELSE NoMeta]

\* the separator branches of _parse_number: the text handed to Decimal() and
\* the metadata written on the way, for the text left by
\* re.sub(r"[^\d,.\-]", "", text)
Separators(cleaned, hints) ==
  IF CountChar(cleaned, ",") > 0 /\ CountChar(cleaned, ".") > 0 THEN
    IF RFind(cleaned, ",") > RFind(cleaned, ".")
    THEN [cleaned |-> StrReplace(StrReplace(cleaned, ".", ""), ",", "."),
          meta |-> "decimal_separator" :> ","]
    ELSE [cleaned |-> StrReplace(cleaned, ",", ""), meta |-> "decimal_separator" :> "."]
  ELSE IF CountChar(cleaned, ",") > 0 /\ CountChar(cleaned, ".") = 0 THEN
    IF hints # None /\ hints[1].numbering_style = Some("indian")
    THEN [cleaned |-> StrReplace(cleaned, ",", ""), meta |-> "grouping_style" :> "indian"]
    ELSE [cleaned |-> StrReplace(cleaned, ",", "."), meta |-> "decimal_separator" :> ","]
  ELSE [cleaned |-> StrReplace(cleaned, ",", ""),
        meta |-> IF HasChar(cleaned, ".") THEN "decimal_separator" :> "." ELSE NoMeta]

\* [value |-> Optional Decimal, metadata |-> dict]; raw is an Optional string
_parse_number(raw, hints) ==
  LET \* the return once Decimal(cleaned) gave value (None: it raised)
      ParsedNumber(value, meta, cleaned) ==
        IF value = None THEN [value |-> None, metadata |-> meta]
        ELSE [value |-> value, metadata |-> DictUpdate(meta, "normalized" :> cleaned)]
      ParseSeparated(text, sep) ==
        ParsedNumber(ToDecimal(sep.cleaned), DictUpdate("raw" :> text, sep.meta),
                     sep.cleaned)
      ParseStripped(text) ==
        IF raw = None \/ raw[1] = "" \/ text = "" THEN [value |-> None, metadata |-> NoMeta]
        ELSE ParseSeparated(text,
                            Separators(StrKeep(text, Digit \cup {",", ".", "-"}), hints))
  IN  ParseStripped(StrStrip(raw[1]))

(***************************************************************************)
(* Deterministic normaliser: dates.                                        *)
(***************************************************************************)
DATE_FORMATS_DAY_FIRST ==
  <<"%d/%m/%Y", "%d-%m-%Y", "%d.%m.%Y", "%d %b %Y", "%d %B %Y", "%d/%m/%y", "%d-%m-%y">>
DATE_FORMATS_MONTH_FIRST == <<"%m/%d/%Y", "%m-%d-%Y", "%m/%d/%y", "%m-%d-%y">>
DATE_FORMATS_NEUTRAL == <<"%Y-%m-%d", "%Y/%m/%d", "%Y.%m.%d">>

\* _parse_date with the month-first formats first up to a probability of 0.5
ParseDateMonthFirstAtHalf(raw, hints) ==
  LET \* day_first_preference = hints.day_first_prob if hints else None
      p == IF hints = None THEN None ELSE hints[1].day_first_prob
      format_candidates ==
        (IF p # None /\ ~RatLess(Rat(1, 2), p[1])
         THEN DATE_FORMATS_MONTH_FIRST \o DATE_FORMATS_DAY_FIRST
         ELSE DATE_FORMATS_DAY_FIRST \o DATE_FORMATS_MONTH_FIRST)
          \o DATE_FORMATS_NEUTRAL
      DateMeta == IF p # None THEN "day_first_prob" :> p[1] ELSE NoMeta
      \* max(p, 1 - p), or 0.9 without a preference
      StrictConfidence ==
        IF p # None THEN Rat(Max2(p[1].n, p[1].d - p[1].n), p[1].d) ELSE Rat(9, 10)
      Unparsed == [parsed |-> None, confidence |-> Some(Rat(4, 10)), metadata |-> DateMeta]
      \* date_format.replace("-", "/").replace(".", "/")
      Relaxed(fmt) == StrReplace(StrReplace(fmt, "-", "/"), ".", "/")
      \* the relaxed pass walks set(format_candidates) in the set's iteration
      \* order: any of the formats that parse can be the one returned
      RelaxedResults(normalised, second) ==
        IF second = {} THEN {Unparsed}
        ELSE {[parsed |-> Some(IsoDate(Strptime(normalised, Relaxed(f))[1])),
               confidence |-> Some(Rat(8, 10)),
               metadata |-> DictUpdate(DateMeta, "format" :> f)] : f \in second}
      ParseDateRelaxed(cleaned, normalised) ==
        IF normalised = cleaned THEN {Unparsed}
        ELSE RelaxedResults(normalised,
               {f \in SeqRange(format_candidates) :
                  Strptime(normalised, Relaxed(f)) # None})
      StrictResult(cleaned, fmt) ==
        [parsed |-> Some(IsoDate(Strptime(cleaned, fmt)[1])),
         confidence |-> Some(StrictConfidence),
         metadata |-> DictUpdate(DateMeta, "format" :> fmt)]
      \* first: the indices of the formats that parse cleaned;
      \* the relaxed pass parses re.sub(r"[.\-]", "/", cleaned)
      ParseDateFirst(cleaned, first) ==
        IF first # {} THEN {StrictResult(cleaned, format_candidates[SetMin(first)])}
        ELSE ParseDateRelaxed(cleaned, StrReplace(StrReplace(cleaned, ".", "/"), "-", "/"))
      ParseDateCleaned(cleaned) ==
        ParseDateFirst(cleaned,
                       {k \in 1..Len(format_candidates) :
                          Strptime(cleaned, format_candidates[k]) # None})
  IN  IF raw = None \/ raw[1] = "" \/ StrStrip(raw[1]) = ""
      THEN {[parsed |-> None, confidence |-> None, metadata |-> NoMeta]}
      ELSE ParseDateCleaned(StrStrip(ReplaceDoubleSpace(StrReplace(StrStrip(raw[1]), ",", " "))))

\* the results [parsed, confidence, metadata] that _parse_date can return:
\* one, unless the relaxed pass finds several formats that parse
_parse_date(raw, hints) ==
  LET \* day_first_preference = hints.day_first_prob if hints else None
      p == IF hints = None THEN None ELSE hints[1].day_first_prob
      format_candidates ==
        (IF p # None /\ RatLess(p[1], Rat(1, 2))
         THEN DATE_FORMATS_MONTH_FIRST \o DATE_FORMATS_DAY_FIRST
         ELSE DATE_FORMATS_DAY_FIRST \o DATE_FORMATS_MONTH_FIRST)
          \o DATE_FORMATS_NEUTRAL
      DateMeta == IF p # None THEN "day_first_prob" :> p[1] ELSE NoMeta
      \* max(p, 1 - p), or 0.9 without a preference
      StrictConfidence ==
        IF p # None THEN Rat(Max2(p[1].n, p[1].d - p[1].n), p[1].d) ELSE Rat(9, 10)
      Unparsed == [parsed |-> None, confidence |-> Some(Rat(4, 10)), metadata |-> DateMeta]
      \* date_format.replace("-", "/").replace(".", "/")
      Relaxed(fmt) == StrReplace(StrReplace(fmt, "-", "/"), ".", "/")
      \* the relaxed pass walks set(format_candidates) in the set's iteration
      \* order: any of the formats that parse can be the one returned
      RelaxedResults(normalised, second) ==
        IF second = {} THEN {Unparsed}
        ELSE {[parsed |-> Some(IsoDate(Strptime(normalised, Relaxed(f))[1])),
               confidence |-> Some(Rat(8, 10)),
               metadata |-> DictUpdate(DateMeta, "format" :> f)] : f \in second}
      ParseDateRelaxed(cleaned, normalised) ==
        IF normalised = cleaned THEN {Unparsed}
        ELSE RelaxedResults(normalised,
               {f \in SeqRange(format_candidates) :
                  Strptime(normalised, Relaxed(f)) # None})
      StrictResult(cleaned, fmt) ==
        [parsed |-> Some(IsoDate(Strptime(cleaned, fmt)[1])),
         confidence |-> Some(StrictConfidence),
         metadata |-> DictUpdate(DateMeta, "format" :> fmt)]
      \* first: the indices of the formats that parse cleaned;
      \* the relaxed pass parses re.sub(r"[.\-]", "/", cleaned)
      ParseDateFirst(cleaned, first) ==
        IF first # {} THEN {StrictResult(cleaned, format_candidates[SetMin(first)])}
        ELSE ParseDateRelaxed(cleaned, StrReplace(StrReplace(cleaned, ".", "/"), "-", "/"))
      ParseDateCleaned(cleaned) ==
        ParseDateFirst(cleaned,
                       {k \in 1..Len(format_candidates) :
                          Strptime(cleaned, format_candidates[k]) # None})
  IN  IF raw = None \/ raw[1] = "" \/ StrStrip(raw[1]) = ""
      THEN {[parsed |-> None, confidence |-> None, metadata |-> NoMeta]}
      ELSE ParseDateCleaned(StrStrip(ReplaceDoubleSpace(StrReplace(StrStrip(raw[1]), ",", " "))))

(***************************************************************************)
(* Deterministic normaliser: fields, currency, totals.  The candidates     *)
(* dict is a function on Fields; candidates.get(field) is cands[field],    *)
(* the empty list when the dict has no such key.                           *)
(***************************************************************************)
NFVRawOfParsed(raw, norm, value_type, parser, confidence, metadata) ==
  [raw |-> IF norm = None THEN None ELSE raw, normalized |-> norm,
   value_type |-> value_type, parser |-> parser, confidence |-> confidence,
   metadata |-> metadata]

\* NormalizedFieldValue(...)
NFV(raw, norm, value_type, parser, confidence, metadata) ==
  [raw |-> raw, normalized |-> norm, value_type |-> value_type, parser |-> parser,
   confidence |-> confidence, metadata |-> metadata]

\* Some(first candidate), or None
_select_candidate(candidate_list) ==
  IF candidate_list = <<>> THEN None ELSE Some(candidate_list[1])

_candidate_metadata(candidate) ==
  ((IF candidate.evidence.anchor_label # None /\ candidate.evidence.anchor_label[1] # ""
    THEN "anchor" :> candidate.evidence.anchor_label[1] ELSE NoMeta)
   @@ (IF candidate.evidence.page # 0 THEN "page" :> candidate.evidence.page ELSE NoMeta))
   @@ (IF candidate.evidence.anchor_id # None /\ candidate.evidence.anchor_id[1] # ""
       THEN "anchor_id" :> candidate.evidence.anchor_id[1] ELSE NoMeta)

_normalise_identity_fields(cands) ==
  [f \in {g \in {"po_number", "order_reference", "invoice_number", "vendor_name"} :
            cands[g] # <<>>}
     |-> NFV(Some(cands[f][1].value_raw),
             IF cands[f][1].value_raw # "" THEN Some(StrStrip(cands[f][1].value_raw))
             ELSE None,
             "string", "identity", Some(RatOne), _candidate_metadata(cands[f][1]))]

\* the dicts _normalise_date_fields can return (see _parse_date)
_normalise_date_fields(cands, hints) ==
  LET DateValue(candidate, parse) ==
        NFV(Some(candidate.value_raw), parse.parsed,
            IF parse.parsed # None THEN "date" ELSE "string",
            "deterministic.date", parse.confidence,
            DictUpdate(parse.metadata, _candidate_metadata(candidate)))
      \* one result of _parse_date for each field of present
      DateChoices(present, parses) ==
        {c \in [present -> UNION {parses[f] : f \in present}] :
           \A f \in present : c[f] \in parses[f]}
      DateDicts(present, choices) ==
        {[f \in present |-> DateValue(cands[f][1], c[f])] : c \in choices}
      DateFieldsOf(present) ==
        DateDicts(present,
                  DateChoices(present,
                              [f \in present |->
                                 _parse_date(Some(cands[f][1].value_raw), hints)]))
  IN  DateFieldsOf({g \in {"po_date", "invoice_date"} : cands[g] # <<>>})

\* [results, subtotal_value, tax_value, grand_value]
_normalise_numeric_fields(cands, hints) ==
  LET NumericResult(candidate, parse) ==
        NFV(Some(candidate.value_raw),
            IF parse.value # None THEN Some(_decimal_to_str(parse.value[1])) ELSE None,
            IF parse.value # None THEN "number" ELSE "string",
            "deterministic.number",
            IF parse.value # None THEN Some(RatOne) ELSE Some(Rat(6, 10)),
            DictUpdate(_candidate_metadata(candidate), parse.metadata))
      \* the Optional Decimal of a numeric field
      NumericOf(field) ==
        IF cands[field] = <<>> THEN None
        ELSE _parse_number(Some(cands[field][1].value_raw), hints).value
  IN  [results |-> [f \in {g \in {"subtotal", "tax_total", "grand_total"} : cands[g] # <<>>}
                      |-> NumericResult(cands[f][1],
                                        _parse_number(Some(cands[f][1].value_raw), hints))],
       subtotal_value |-> NumericOf("subtotal"),
       tax_value |-> NumericOf("tax_total"),
       grand_value |-> NumericOf("grand_total")]

\* the dict in its insertion order
CURRENCY_GLYPH_MAP == <<[glyph |-> "₹", code |-> "INR"], [glyph |-> "$", code |-> "USD"],
                        [glyph |-> "€", code |-> "EUR"], [glyph |-> "£", code |-> "GBP"]>>

CURRENCY_WORD_MAP ==
  [w \in {"inr", "rs", "rs.", "usd", "eur", "gbp", "aud", "cad"} |->
     CASE w = "inr" -> "INR" [] w = "rs" -> "INR" [] w = "rs." -> "INR" [] w = "usd" -> "USD"
       [] w = "eur" -> "EUR" [] w = "gbp" -> "GBP" [] w = "aud" -> "AUD" [] w = "cad" -> "CAD"]

DetectCurrencyOfWords(raw_in, hints, candidate) ==
  IF raw_in # None /\ StrLower(StrStrip(raw_in[1])) \in DOMAIN CURRENCY_WORD_MAP
  THEN [code |-> Some(CURRENCY_WORD_MAP[StrLower(StrStrip(raw_in[1]))]),
        metadata |-> "source" :> "candidate"]
  ELSE [code |-> None, metadata |-> NoMeta]

\* [code |-> Optional string, metadata |-> dict]
_detect_currency(raw_in, hints, candidate) ==
  LET FromGlyph(code, glyph, source) ==
        [code |-> Some(code), metadata |-> ("glyph" :> glyph) @@ ("source" :> source)]
      FromWord(word) ==
        [code |-> Some(CURRENCY_WORD_MAP[word]), metadata |-> "source" :> "candidate"]
      \* CURRENCY_GLYPH_MAP[glyph]
      GlyphCode(glyph) ==
        CURRENCY_GLYPH_MAP[CHOOSE k \in 1..Len(CURRENCY_GLYPH_MAP) :
                             CURRENCY_GLYPH_MAP[k].glyph = glyph].code
      \* known: the indices of the glyphs of hints.currency_glyphs that
      \* CURRENCY_GLYPH_MAP has; the first one is taken
      DetectFromHints(glyphs, known) ==
        IF known # {}
        THEN FromGlyph(GlyphCode(glyphs[SetMin(known)]), glyphs[SetMin(known)],
                       "document_hint")
        ELSE [code |-> None, metadata |-> NoMeta]
      DetectFromGlyphs(glyphs) ==
        DetectFromHints(glyphs,
                        {k \in 1..Len(glyphs) :
                           \E j \in 1..Len(CURRENCY_GLYPH_MAP) :
                              CURRENCY_GLYPH_MAP[j].glyph = glyphs[k]})
      DetectFromCandidate ==
        IF candidate # None /\ candidate[1].value_raw # ""
           /\ StrLower(candidate[1].value_raw) \in DOMAIN CURRENCY_WORD_MAP
        THEN FromWord(StrLower(candidate[1].value_raw))
        ELSE DetectFromGlyphs(IF hints = None THEN <<>> ELSE hints[1].currency_glyphs)
      \* in_raw: the entries of CURRENCY_GLYPH_MAP whose glyph is in raw
      DetectFromRaw(raw, in_raw) ==
        IF raw # "" /\ in_raw # {}
        THEN FromGlyph(CURRENCY_GLYPH_MAP[SetMin(in_raw)].code,
                       CURRENCY_GLYPH_MAP[SetMin(in_raw)].glyph, "candidate")
        ELSE IF raw # "" /\ StrLower(raw) \in DOMAIN CURRENCY_WORD_MAP
        THEN FromWord(StrLower(raw))
        ELSE DetectFromCandidate
      DetectStripped(raw) ==
        DetectFromRaw(raw, {k \in 1..Len(CURRENCY_GLYPH_MAP) :
                              HasChar(raw, CURRENCY_GLYPH_MAP[k].glyph)})
  IN  DetectStripped(IF raw_in # None /\ raw_in[1] # "" THEN StrStrip(raw_in[1]) ELSE "")

\* Optional NormalizedFieldValue
_normalise_currency(cands, hints) ==
  LET CurrencyValue(candidate, raw_value, detected) ==
        IF detected.code = None /\ (raw_value = None \/ raw_value[1] = "") THEN None
        ELSE Some(NFV(raw_value, detected.code,
                      IF detected.code # None THEN "currency" ELSE "string",
                      "deterministic.currency",
                      IF detected.code # None THEN Some(Rat(9, 10)) ELSE Some(Rat(5, 10)),
                      IF candidate # None
                      THEN DictUpdate(detected.metadata, _candidate_metadata(candidate[1]))
                      ELSE detected.metadata))
      CurrencyOfRaw(candidate, raw_value) ==
        CurrencyValue(candidate, raw_value, _detect_currency(raw_value, hints, candidate))
      CurrencyOf(candidate) ==
        CurrencyOfRaw(candidate,
                      IF candidate # None THEN Some(candidate[1].value_raw) ELSE None)
  IN  CurrencyOf(_select_candidate(cands["currency"]))

\* Optional NormalizedFieldValue
_field_from_results(field_name, cands) ==
  IF cands[field_name] = <<>> THEN None
  ELSE Some(NFV(Some(cands[field_name][1].value_raw),
                IF cands[field_name][1].value_raw # ""
                THEN Some(StrStrip(cands[field_name][1].value_raw)) ELSE None,
                "string", "identity", Some(RatOne),
                _candidate_metadata(cands[field_name][1])))

\* the list of "table ids" taken from the anchor ids of the totals candidates
_preferred_table_ids_from_candidates(cands) ==
  LET \* anchor_id and "-" in anchor_id
      HasDashedAnchor(candidate) ==
        /\ candidate.evidence.anchor_id # None
        /\ candidate.evidence.anchor_id[1] # ""
        /\ HasChar(candidate.evidence.anchor_id[1], "-")
      \* anchor_id.split("-")[0] of each candidate
      AnchorPrefixes(with) ==
        [k \in 1..Len(with) |-> StrSplitFirst(with[k].evidence.anchor_id[1], "-")]
  IN  AnchorPrefixes(SelectSeq(cands["subtotal"], HasDashedAnchor))
        \o AnchorPrefixes(SelectSeq(cands["tax_total"], HasDashedAnchor))
        \o AnchorPrefixes(SelectSeq(cands["grand_total"], HasDashedAnchor))

\* amount_values of a table: the values parsed from the rightmost cells of its
\* non-header rows
TableAmounts(table, hints) ==
  LET CellAmount(cell) ==
        IF cell.is_header \/ table.n_cols = 0 THEN <<>>
        ELSE IF cell.column = table.n_cols - 1
        THEN _parse_number(Some(cell.text), hints).value
        ELSE <<>>
  IN  FlattenSeq([k \in 1..Len(table.cells) |-> CellAmount(table.cells[k])])

\* [value |-> Optional Decimal, metadata |-> dict]
_recompute_totals_from_tables(tbls, hints, cands) ==
  LET TableSum(table, amount_values) ==
        [value |-> Some(DecSum(amount_values)),
         metadata |-> (("source" :> "table_sum") @@ ("table_id" :> table.table_id))
                        @@ ("row_count" :> Len(amount_values))]
      \* usable: the tables that are not skipped and have amounts
      FirstUsable(usable) ==
        IF usable = {} THEN [value |-> None, metadata |-> NoMeta]
        ELSE TableSum(tbls[SetMin(usable)], TableAmounts(tbls[SetMin(usable)], hints))
      RecomputeWith(preferred) ==
        FirstUsable({k \in 1..Len(tbls) :
                       /\ ~(preferred # {} /\ tbls[k].table_id \notin preferred)
                       /\ TableAmounts(tbls[k], hints) # <<>>})
  IN  IF tbls = <<>> THEN [value |-> None, metadata |-> NoMeta]
      ELSE RecomputeWith(SeqRange(_preferred_table_ids_from_candidates(cands)))

ToleranceStrict(difference) == ~DecLeq(Dec(1, 2), difference)

\* difference <= threshold, threshold = Decimal("0.01")
WithinTolerance(difference) == DecLeq(difference, Dec(1, 2))

\* "if candidates": the dict has a key
HasCandidates(cands) == \E f \in Fields : cands[f] # <<>>

\* _build_totals_breakdown with the status "missing" for a grand total that has
\* no recomputed total to be compared with
BuildTotalsMissingWithoutRecomputed(cands, hints, tbls, subtotal, tax, grand) ==
  LET TotalsNotes(status, difference) ==
        IF difference # None
        THEN Some("Grand total " \o (IF status = "ok" THEN "matches" ELSE "differs from")
                    \o " recomputed total.")
        ELSE None
      \* the TotalsBreakdown, or None when its four fields are None
      TotalsBreakdown(subtotal_field, tax_field, grand_field, recomputed_field, difference, status) ==
        IF subtotal_field = None /\ tax_field = None /\ grand_field = None
           /\ recomputed_field = None
        THEN None
        ELSE Some([subtotal |-> subtotal_field, tax_total |-> tax_field,
                   grand_total |-> grand_field, recomputed_total |-> recomputed_field,
                   difference |-> difference, status |-> status,
                   notes |-> TotalsNotes(status, difference)])
      TotalsStatus(recomputed_value, difference) ==
        IF grand # None
        THEN (IF recomputed_value # None
              THEN (IF WithinTolerance(difference[1]) THEN "ok" ELSE "mismatch")
              ELSE "missing")
        ELSE IF subtotal # None \/ tax # None \/ recomputed_value # None
        THEN "insufficient"
        ELSE "missing"
      TotalsCompared(recomputed_field, recomputed_value, difference) ==
        TotalsBreakdown(_field_from_results("subtotal", cands),
                        _field_from_results("tax_total", cands),
                        _field_from_results("grand_total", cands),
                        recomputed_field, difference,
                        TotalsStatus(recomputed_value, difference))
      RecomputedField(recomputed_value, metadata) ==
        IF recomputed_value = None THEN None
        ELSE Some(NFV(None, Some(_decimal_to_str(recomputed_value[1])), "number",
                      "deterministic.total", Some(Rat(9, 10)), metadata))
      \* abs(grand - recomputed_value) when both are there
      Difference(recomputed_value) ==
        IF grand # None /\ recomputed_value # None
        THEN Some(DecAbs(DecSub(grand[1], recomputed_value[1])))
        ELSE None
      TotalsRecomputed(from_tables, recomputed_value) ==
        TotalsCompared(RecomputedField(recomputed_value,
                                       IF from_tables.value # None THEN from_tables.metadata
                                       ELSE "source" :> "subtotal_plus_tax"),
                       recomputed_value, Difference(recomputed_value))
      \* recomputed_value: the table sum, else subtotal + tax, else None
      TotalsFrom(from_tables) ==
        TotalsRecomputed(from_tables,
                         IF from_tables.value # None THEN from_tables.value
                         ELSE IF subtotal # None /\ tax # None
                         THEN Some(DecAdd(subtotal[1], tax[1]))
                         ELSE None)
  IN  IF ~HasCandidates(cands) /\ tbls = <<>> THEN None
      ELSE TotalsFrom(_recompute_totals_from_tables(tbls, hints, cands))

\* Optional TotalsBreakdown; subtotal, tax and grand are Optional Decimals
_build_totals_breakdown(cands, hints, tbls, subtotal, tax, grand) ==
  LET TotalsNotes(status, difference) ==
        IF difference # None
        THEN Some("Grand total " \o (IF status = "ok" THEN "matches" ELSE "differs from")
                    \o " recomputed total.")
        ELSE None
      \* the TotalsBreakdown, or None when its four fields are None
      TotalsBreakdown(subtotal_field, tax_field, grand_field, recomputed_field, difference, status) ==
        IF subtotal_field = None /\ tax_field = None /\ grand_field = None
           /\ recomputed_field = None
        THEN None
        ELSE Some([subtotal |-> subtotal_field, tax_total |-> tax_field,
                   grand_total |-> grand_field, recomputed_total |-> recomputed_field,
                   difference |-> difference, status |-> status,
                   notes |-> TotalsNotes(status, difference)])
      TotalsStatus(recomputed_value, difference) ==
        IF grand # None
        THEN (IF recomputed_value # None
              THEN (IF WithinTolerance(difference[1]) THEN "ok" ELSE "mismatch")
              ELSE "insufficient")
        ELSE IF subtotal # None \/ tax # None \/ recomputed_value # None
        THEN "insufficient"
        ELSE "missing"
      TotalsCompared(recomputed_field, recomputed_value, difference) ==
        TotalsBreakdown(_field_from_results("subtotal", cands),
                        _field_from_results("tax_total", cands),
                        _field_from_results("grand_total", cands),
                        recomputed_field, difference,
                        TotalsStatus(recomputed_value, difference))
      RecomputedField(recomputed_value, metadata) ==
        IF recomputed_value = None THEN None
        ELSE Some(NFV(None, Some(_decimal_to_str(recomputed_value[1])), "number",
                      "deterministic.total", Some(Rat(9, 10)), metadata))
      \* abs(grand - recomputed_value) when both are there
      Difference(recomputed_value) ==
        IF grand # None /\ recomputed_value # None
        THEN Some(DecAbs(DecSub(grand[1], recomputed_value[1])))
        ELSE None
      TotalsRecomputed(from_tables, recomputed_value) ==
        TotalsCompared(RecomputedField(recomputed_value,
                                       IF from_tables.value # None THEN from_tables.metadata
                                       ELSE "source" :> "subtotal_plus_tax"),
                       recomputed_value, Difference(recomputed_value))
      \* recomputed_value: the table sum, else subtotal + tax, else None
      TotalsFrom(from_tables) ==
        TotalsRecomputed(from_tables,
                         IF from_tables.value # None THEN from_tables.value
                         ELSE IF subtotal # None /\ tax # None
                         THEN Some(DecAdd(subtotal[1], tax[1]))
                         ELSE None)
  IN  IF ~HasCandidates(cands) /\ tbls = <<>> THEN None
      ELSE TotalsFrom(_recompute_totals_from_tables(tbls, hints, cands))

\* the Optional NormalizationSummary values normalize_document can return
normalize_document(cands, hints, tbls) ==
  LET \* the NormalizationSummary, or None when it would be empty
      Summary(fields, currency_value, totals) ==
        IF DOMAIN fields = {} /\ currency_value = None /\ totals = None THEN None
        ELSE Some([fields |-> fields, currency |-> currency_value, totals |-> totals])
      NormalizeNumeric(numeric) ==
        {Summary(numeric.results @@ (dates @@ _normalise_identity_fields(cands)),
                 _normalise_currency(cands, hints),
                 _build_totals_breakdown(cands, hints, tbls, numeric.subtotal_value,
                                         numeric.tax_value, numeric.grand_value))
         : dates \in _normalise_date_fields(cands, hints)}
  IN  IF ~HasCandidates(cands) /\ tbls = <<>> THEN {None}
      ELSE NormalizeNumeric(_normalise_numeric_fields(cands, hints))

(***************************************************************************)
(* Fingerprint and anomalies.                                              *)
(***************************************************************************)
\* Settings.default_languages
DefaultLanguages == <<"en">>

\* hashlib.sha256(text).hexdigest()[:16] is kept symbolic: the digest of text
_build_fingerprint(hints, cands, ps) ==
  [vendor_guess |-> IF cands["vendor_name"] # <<>>
                    THEN Some(cands["vendor_name"][1].value_raw) ELSE None,
   layout_signature |->
     [sha256_16 |-> StrJoin([k \in 1..Min2(1, Len(ps)) |-> ps[k].text], "\n")],
   languages |-> DefaultLanguages,
   currency_glyphs |-> hints.currency_glyphs,
   numbering_style |-> hints.numbering_style]

DetectAnomaliesFromThree(ans, tbls, cands) ==
  LET Occurrences(label) == Cardinality({k \in 1..Len(ans) : ans[k].label = label})
      Orderings(S) ==
        {f \in [1..Cardinality(S) -> S] :
           \A i, j \in 1..Cardinality(S) : i # j => f[i] # f[j]}
      excess == {label \in {ans[k].label : k \in 1..Len(ans)} : Occurrences(label) >= 3}
  IN  {[k \in 1..Cardinality(excess) |->
          [code |-> "anchor_excess", label |-> order[k],
           occurrences |-> Occurrences(order[k]), page |-> None]]
       \o (IF cands["grand_total"] # <<>> \/ cands["subtotal"] # <<>> THEN <<>>
           ELSE <<[code |-> "totals_missing", page |-> None]>>)
       : order \in Orderings(excess)}

\* the anomaly lists _detect_anomalies can return: the loop over the labels
\* walks a set, in an order that is not fixed
_detect_anomalies(ans, tbls, cands) ==
  LET Occurrences(label) == Cardinality({k \in 1..Len(ans) : ans[k].label = label})
      \* the orders in which a for loop can visit the elements of a set
      Orderings(S) ==
        {f \in [1..Cardinality(S) -> S] :
           \A i, j \in 1..Cardinality(S) : i # j => f[i] # f[j]}
      excess == {label \in {ans[k].label : k \in 1..Len(ans)} : Occurrences(label) > 3}
      low == SelectSeq(tbls, LAMBDA table : table.n_cols <= 1)
      totals_present == cands["grand_total"] # <<>> \/ cands["subtotal"] # <<>>
  IN  {[k \in 1..Cardinality(excess) |->
          [code |-> "anchor_excess", label |-> order[k],
           occurrences |-> Occurrences(order[k]), page |-> None]]
       \o [k \in 1..Len(low) |->
          [code |-> "table_low_confidence", table_id |-> low[k].table_id,
           n_cols |-> low[k].n_cols, page |-> Some(low[k].page)]]
       \o (IF totals_present THEN <<>>
           ELSE <<[code |-> "totals_missing", page |-> None]>>)
       : order \in Orderings(excess)}

(***************************************************************************)
(* OCR inputs.  A line of the engine's output carries its text, a bounding *)
(* box and a confidence; lines are laid out top to bottom.                 *)
(***************************************************************************)
Line(text, line_index) ==
  [text |-> text, bbox |-> Some(<<50, 40 * line_index + 20, 950, 40 * line_index + 50>>),
   confidence |-> Some(Rat(95, 100))]

E2ELines == <<"PURCHASE ORDER NO: PO-88214",
              "Ship To: Acme Corp, 123 Main St, Springfield, IL 62704",
              "ITEM  QTY  PRICE",
              "Widget  10  5.00">>

E2EDocument ==
  <<[width |-> 1000, height |-> 1000,
     text_lines |-> [k \in 1..Len(E2ELines) |-> Line(E2ELines[k], k - 1)]]>>

Document(texts, page_of, np, size) ==
  [p \in 1..np |->
     LET idx == SelectSeq([k \in 1..Len(texts) |-> k], LAMBDA k : page_of[k] = p)
     IN  [width |-> size[1], height |-> size[2],
          text_lines |-> [j \in 1..Len(idx) |-> Line(texts[idx[j]], j - 1)]]]

\* results of two pages with a "total" anchor line on page 1 and a line of its
\* page before or after it, at the corners of the context window of the anchor
\* and one pixel outside them; and results of one page where the value that
\* follows the anchor label is not hinted and a hinted value is below it; and
\* results of one page with a line that holds the words of several labels, of
\* one label or of none; and results of one page whose words fall under each
\* rule of the token hinter, under several of them or under none, with one
\* line of blanks; and results of one or two pages without lines, of the sizes
\* at which a zone gets or loses its first pixel row, and of no width or height
AnchorDocuments ==
  LET LineAt(text, corner) ==
        [text |-> text,
         bbox |-> Some(<<corner[1], corner[2], corner[1] + 900, corner[2] + 30>>),
         confidence |-> Some(Rat(95, 100))]
      Page(lines) == [width |-> 3000, height |-> 1000, text_lines |-> lines]
      CornerPool == {<<50, 20>>, <<49, 20>>, <<50, 19>>,
                     <<1250, 350>>, <<1251, 350>>, <<1250, 351>>}
      AnchorLine == LineAt("Total: 10", <<50, 20>>)
      OtherPage == Page(<<LineAt("$7", <<50, 20>>)>>)
      Around(corner) ==
        {<<Page(<<AnchorLine, LineAt("$5.00", corner)>>), OtherPage>>,
         <<Page(<<LineAt("$5.00", corner), AnchorLine>>), OtherPage>>}
  IN  UNION {Around(corner) : corner \in CornerPool}
      \cup {<<Page(<<LineAt("PO Date: 1/2/2024,", <<50, 20>>),
                     LineAt("05/13/2024", <<50, 60>>)>>)>>}
      \cup {<<Page(<<LineAt(text, <<50, 20>>), LineAt("Subtotal 4", <<50, 60>>)>>)>> :
              text \in {"Sub Total: 5", "Invoice Date PO-No 7", "GST Tax Invoice No",
                        "Ship to Vendor", "Order ID of Supplier", "Totals"}}
      \cup {<<Page(<<LineAt("$5€ €5$ usd 5$ Rs.", <<50, 20>>),
                     LineAt("$12/05/2024 12/05/2024 2024-05-12", <<50, 60>>),
                     LineAt("  ", <<50, 100>>),
                     LineAt("12,34 1,000 1,2 abc", <<50, 140>>),
                     LineAt("1,00,000 12,34,567 1,00", <<50, 180>>)>>)>>}
      \cup {<<[width |-> w, height |-> h, text_lines |-> <<>>]>> :
              w \in {0, 1, 640}, h \in {0, 1, 4, 5, 6, 7, 19, 20, 33}}
      \cup {<<[width |-> 640, height |-> h, text_lines |-> <<>>],
               [width |-> w, height |-> 6, text_lines |-> <<>>]>> :
              w \in {0, 800}, h \in {0, 4, 480}}

\* the engine's results for a PDF of one page or more (extract_from_pdf raises
\* ValueError before the pipeline when the PDF has no page)
Documents ==
  LET LinePool == {"PO No: PO-88214", "Date: 05/13/2024", "ITEM  QTY  PRICE", "A  $2"}
      PageSizePool == {<<1000, 1000>>, <<0, 0>>}
      \* the assignments of n lines to np pages, in page order
      PageAssignments(n, np) ==
        {f \in [1..n -> 1..np] : \A i, j \in 1..n : i <= j => f[i] <= f[j]}
  IN  {E2EDocument} \cup AnchorDocuments \cup
      UNION {UNION {{Document(texts, page_of, np, size) :
                       texts \in [1..n -> LinePool], page_of \in PageAssignments(n, np),
                       size \in PageSizePool}
                    : np \in 1..MaxPages}
             : n \in 0..MaxLines}

(***************************************************************************)
(* extract_from_pdf, from the OCR engine's output on: one action per call  *)
(* of the structuring pipeline.  pc is the position in extract_from_pdf.   *)
(***************************************************************************)
VARIABLES call, ret

\* the attributes of the service that hold the engines, the threads that are
\* in extract_from_pdf at lines 78-79, and the number of times each loader
\* has been invoked.  A loaded object is named by the invocation that made it.
VARIABLES _det_model, _det_processor, _det_lock, _rec_processor, _rec_model_cache,
          _rec_lock, callers, loads

svcVars == <<_det_model, _det_processor, _det_lock, _rec_processor, _rec_model_cache,
             _rec_lock, callers, loads>>

\* the requests that are in extract_upload (app/api/routes.py), and the files
\* of settings.temp_dir with their sizes
VARIABLES requests, temp_dir

reqVars == <<requests, temp_dir>>

vars == <<pipeVars, call, ret, svcVars, reqVars>>

MaxCallers == 2
\* tuple(language_codes)
LanguageKeys == {<<"en">>, <<"en", "hi">>}

\* the service after __init__: a lock is 0 when free, else the thread that
\* holds it; a key is in _rec_model_cache iff its entry is not None
Service0 ==
  /\ _det_model = None
  /\ _det_processor = None
  /\ _det_lock = 0
  /\ _rec_processor = None
  /\ _rec_model_cache = [key \in LanguageKeys |-> None]
  /\ _rec_lock = 0
  /\ loads = [det_processor |-> 0, det_model |-> 0, rec_processor |-> 0,
              rec_model |-> [key \in LanguageKeys |-> 0]]

NoCall == [fn |-> "none"]

Locals0 ==
  /\ pages = <<>>
  /\ document_tokens = <<>>
  /\ doc_stats = EmptyStats
  /\ stats_trace = <<>>
  /\ zones = <<>>
  /\ anchors = <<>>
  /\ tables = <<>>
  /\ candidates = NoCandidates
  /\ document_hints = None
  /\ normalized = None
  /\ fingerprint = None
  /\ anomalies = <<>>
  /\ result = None
  /\ error = None

Init ==
  /\ pc = "normalise_pages"
  /\ ocr \in Documents
  /\ Locals0
  /\ call = NoCall
  /\ ret = None
  /\ Service0
  /\ callers = <<>>
  /\ requests = <<>>
  /\ temp_dir = <<>>

NormalisePages ==
  /\ pc = "normalise_pages"
  /\ pages' = _normalise_pages(ocr)
  /\ document_tokens' = AllTokens(_normalise_pages(ocr))
  /\ pc' = "apply_token_hints"
  /\ UNCHANGED <<ocr, doc_stats, stats_trace, zones, anchors, tables, candidates,
                 document_hints, normalized, fingerprint, anomalies, result, error,
                 call, ret, svcVars, reqVars>>

\* the token objects are shared by document_tokens, page.tokens and block.tokens
HintedPages(ps) ==
  [k \in 1..Len(ps) |->
     [ps[k] EXCEPT
        !.tokens = HintedTokens(ps[k].tokens),
        !.blocks = [b \in 1..Len(ps[k].blocks) |->
                      [ps[k].blocks[b] EXCEPT
                         !.tokens = HintedTokens(ps[k].blocks[b].tokens)]]]]

ApplyTokenHints ==
  /\ pc = "apply_token_hints"
  /\ doc_stats' = _apply_token_hints(document_tokens)
  /\ stats_trace' = StatsTrace(document_tokens)
  /\ document_tokens' = HintedTokens(document_tokens)
  /\ pages' = HintedPages(pages)
  /\ pc' = "build_zones"
  /\ UNCHANGED <<ocr, zones, anchors, tables, candidates, document_hints, normalized,
                 fingerprint, anomalies, result, error, call, ret, svcVars, reqVars>>

BuildZones ==
  /\ pc = "build_zones"
  /\ zones' = _build_zones(PageSizes(ocr))
  /\ pc' = "detect_anchors"
  /\ UNCHANGED <<ocr, pages, document_tokens, doc_stats, stats_trace, anchors, tables,
                 candidates, document_hints, normalized, fingerprint, anomalies, result,
                 error, call, ret, svcVars, reqVars>>

DetectAnchors ==
  /\ pc = "detect_anchors"
  /\ anchors' = _detect_anchors(pages, zones)
  /\ pc' = "detect_tables"
  /\ UNCHANGED <<ocr, pages, document_tokens, doc_stats, stats_trace, zones, tables,
                 candidates, document_hints, normalized, fingerprint, anomalies, result,
                 error, call, ret, svcVars, reqVars>>

\* an exception of _detect_tables leaves extract_from_pdf
DetectTables ==
  /\ pc = "detect_tables"
  /\ LET detected == _detect_tables(pages, PageSizes(ocr))
     IN  /\ tables' = detected.tables
         /\ error' = detected.raised
         /\ pc' = IF detected.raised # None THEN "error" ELSE "extract_field_candidates"
  /\ UNCHANGED <<ocr, pages, document_tokens, doc_stats, stats_trace, zones, anchors,
                 candidates, document_hints, normalized, fingerprint, anomalies, result,
                 call, ret, svcVars, reqVars>>

ExtractFieldCandidates ==
  /\ pc = "extract_field_candidates"
  /\ candidates' = _extract_field_candidates(anchors, pages, document_tokens)
  /\ pc' = "compute_document_hints"
  /\ UNCHANGED <<ocr, pages, document_tokens, doc_stats, stats_trace, zones, anchors,
                 tables, document_hints, normalized, fingerprint, anomalies, result,
                 error, call, ret, svcVars, reqVars>>

ComputeDocumentHints ==
  /\ pc = "compute_document_hints"
  /\ document_hints' = Some(_compute_document_hints(doc_stats))
  /\ pc' = "normalize_document"
  /\ UNCHANGED <<ocr, pages, document_tokens, doc_stats, stats_trace, zones, anchors,
                 tables, candidates, normalized, fingerprint, anomalies, result, error,
                 call, ret, svcVars, reqVars>>

NormalizeDocument ==
  /\ pc = "normalize_document"
  /\ normalized' \in normalize_document(candidates, document_hints, tables)
  /\ pc' = "build_fingerprint"
  /\ UNCHANGED <<ocr, pages, document_tokens, doc_stats, stats_trace, zones, anchors,
                 tables, candidates, document_hints, fingerprint, anomalies, result,
                 error, call, ret, svcVars, reqVars>>

BuildFingerprint ==
  /\ pc = "build_fingerprint"
  /\ fingerprint' = Some(_build_fingerprint(document_hints[1], candidates, pages))
  /\ pc' = "detect_anomalies"
  /\ UNCHANGED <<ocr, pages, document_tokens, doc_stats, stats_trace, zones, anchors,
                 tables, candidates, document_hints, normalized, anomalies, result,
                 error, call, ret, svcVars, reqVars>>

DetectAnomalies ==
  /\ pc = "detect_anomalies"
  /\ anomalies' \in _detect_anomalies(anchors, tables, candidates)
  /\ pc' = "return"
  /\ UNCHANGED <<ocr, pages, document_tokens, doc_stats, stats_trace, zones, anchors,
                 tables, candidates, document_hints, normalized, fingerprint, result,
                 error, call, ret, svcVars, reqVars>>

OrNone(list) == IF list = <<>> THEN None ELSE Some(list)

\* return OCRResult(...)
Return ==
  /\ pc = "return"
  /\ result' = Some([pages |-> pages,
                     full_text |-> StrJoin(SelectStr([k \in 1..Len(pages) |-> pages[k].text]),
                                           "\n\n"),
                     tokens |-> OrNone(document_tokens),
                     zones |-> OrNone(zones),
                     anchors |-> OrNone(anchors),
                     tables |-> OrNone(tables),
                     candidates |-> IF HasCandidates(candidates)
                                    THEN Some(candidates) ELSE None,
                     hints |-> document_hints[1],
                     normalized |-> normalized,
                     fingerprint |-> fingerprint[1],
                     anomalies |-> OrNone(anomalies)])
  /\ pc' = "done"
  /\ UNCHANGED <<ocr, pages, document_tokens, doc_stats, stats_trace, zones, anchors,
                 tables, candidates, document_hints, normalized, fingerprint, anomalies,
                 error, call, ret, svcVars, reqVars>>

Next ==
  \/ NormalisePages
  \/ ApplyTokenHints
  \/ BuildZones
  \/ DetectAnchors
  \/ DetectTables
  \/ ExtractFieldCandidates
  \/ ComputeDocumentHints
  \/ NormalizeDocument
  \/ BuildFingerprint
  \/ DetectAnomalies
  \/ Return

Spec == Init /\ [][Next]_vars

(***************************************************************************)
(* The units called on their own.  call is a pending call of one of the    *)
(* pipeline's functions with its arguments, ret the value it returned      *)
(* (None until it returns).                                                *)
(***************************************************************************)
MaxNumberLen == 4
MaxSegments == 4
MaxRows == 2
MaxAnchors == 8

\* the raw texts _parse_number is called with
NumberPool ==
  LET NumberAlphabet == {"1", ",", ".", "$"}
      NumberExamples == {"1,000.50", "1,00,000", "1,200.00", "-1.000,50", " 12 "}
      RECURSIVE StringsOfLen(_)
      StringsOfLen(n) ==
        IF n = 0 THEN {""}
        ELSE {str \o c : str \in StringsOfLen(n - 1), c \in NumberAlphabet}
  IN  NumberExamples \cup UNION {StringsOfLen(n) : n \in 0..MaxNumberLen}

HintsWithStyle(numbering_style) ==
  [day_first_prob |-> None, numbering_style |-> numbering_style, currency_glyphs |-> <<>>]

ParseNumberCalls ==
  {[fn |-> "_parse_number", raw |-> Some(raw), hints |-> hints] :
     raw \in NumberPool,
     hints \in {None, Some(HintsWithStyle(Some("indian"))),
                Some(HintsWithStyle(Some("international")))}}

\* a run of table lines: a header and rows, each given by its segments
BuildTableCalls ==
  LET SegmentPool == <<"A", "2", "5.00", "x", "y", "z">>
      HeaderPool == {<<"ITEM", "QTY", "PRICE">>, <<"ITEM", "QTY">>}
      RowPool == {SubSeq(SegmentPool, 1, n) : n \in 2..MaxSegments}
  IN  {[fn |-> "_build_table_from_blocks", rows |-> <<header>> \o rows, size |-> size] :
         header \in HeaderPool, rows \in UNION {[1..n -> RowPool] : n \in 1..MaxRows},
         size \in {<<1000, 1000>>, <<500, 30>>}}

\* the page the normaliser and the hinter make of the lines
PageOfLines(texts) ==
  HintedPages(_normalise_pages(Document(texts, [k \in 1..Len(texts) |-> 1], 1,
                                        <<1000, 1000>>)))[1]

\* the line of a table row
RowText(segments) == StrJoin(segments, "  ")

\* candidates as extract_from_pdf computes them for the end-to-end example
E2ECandidates ==
  LET ps == HintedPages(_normalise_pages(E2EDocument))
  IN  _extract_field_candidates(_detect_anchors(ps, _build_zones(PageSizes(E2EDocument))),
                                ps, AllTokens(ps))

\* hints as extract_from_pdf computes them for the end-to-end example
E2EHints ==
  _compute_document_hints(_apply_token_hints(AllTokens(_normalise_pages(E2EDocument))))

\* table lists as the loop of _detect_tables collects them for a single page
\* of a header line and amount rows
TableLists ==
  LET AmountPool == {"1,199.98", "0.01", "0.02", "n/a"}
      AmountRuns == UNION {[1..n -> AmountPool] : n \in 1..MaxRows}
      AmountLines(amounts) ==
        <<"ITEM  AMOUNT">> \o [k \in 1..Len(amounts) |-> RowText(<<"A", amounts[k]>>)]
      TablesOfLines(texts) == PageTables(PageOfLines(texts), <<<<1000, 1000>>>>)
  IN  {<<>>}
      \cup {TablesOfLines(AmountLines(amounts)) : amounts \in AmountRuns}
      \cup {TablesOfLines(AmountLines(<<"n/a">>) \o <<"Notes">> \o AmountLines(amounts)) :
              amounts \in AmountRuns}

\* candidates dicts with totals candidates, with and without an anchor
CandidateDicts ==
  LET Candidate(value_raw, anchor_id, label) ==
        [value_raw |-> value_raw,
         evidence |-> [page |-> 1, bbox |-> <<0, 0, 0, 0>>,
                       bbox_rel |-> <<RatZero, RatZero, RatZero, RatZero>>,
                       anchor_id |-> anchor_id,
                       anchor_label |-> IF anchor_id = None THEN None ELSE Some(label),
                       token_ids |-> <<>>]]
      TotalsCandidates(grand, subtotal, tax, anchor_id) ==
        [f \in Fields |->
           CASE f = "grand_total" /\ grand # None ->
                  <<Candidate(grand[1], anchor_id, "total")>>
             [] f = "subtotal" /\ subtotal # None ->
                  <<Candidate(subtotal[1], anchor_id, "subtotal")>>
             [] f = "tax_total" /\ tax # None -> <<Candidate(tax[1], anchor_id, "tax")>>
             [] OTHER -> <<>>]
  IN  {TotalsCandidates(grand, subtotal, tax, anchor_id) :
         grand \in {None, Some("1,200.00"), Some("n/a")},
         subtotal \in {None, Some("1,199.00")},
         tax \in {None, Some("0.99"), Some("0.98")}, anchor_id \in {None, Some("p1-a1")}}

\* candidates dicts with a po_date and a grand_total candidate whose values
\* parse or do not parse
UnparsedCandidateDicts ==
  LET Candidate(value_raw, label) ==
        [value_raw |-> value_raw,
         evidence |-> [page |-> 1, bbox |-> <<0, 0, 0, 0>>,
                       bbox_rel |-> <<RatZero, RatZero, RatZero, RatZero>>,
                       anchor_id |-> Some("p1-a1"), anchor_label |-> Some(label),
                       token_ids |-> <<>>]]
      DatePool == {"n/a", "31/02/2024", "13/13/2024", "2024.02.30", "05.13.2024",
                   "05/13/2024", "1/2/2024,", ",", "01.02.24", "01/02/2024",
                   "2024-01-02", "13.05.24"}
      AmountPool == {"n/a", "1.2.3", "-", "1,2,3", "12.50", "$"}
  IN  {[f \in Fields |->
          CASE f = "po_date" /\ date # None -> <<Candidate(date[1], "po_date")>>
            [] f = "grand_total" /\ amount # None -> <<Candidate(amount[1], "total")>>
            [] OTHER -> <<>>] :
         date \in {None} \cup {Some(d) : d \in DatePool},
         amount \in {None} \cup {Some(a) : a \in AmountPool}}

NormalizeDocumentCalls ==
  {[fn |-> "normalize_document", candidates |-> cands,
    hints |-> Some(HintsWithStyle(None)), tables |-> tbls] :
     cands \in CandidateDicts, tbls \in TableLists}
  \cup {[fn |-> "normalize_document", candidates |-> cands, hints |-> hints,
         tables |-> <<>>] :
          cands \in UnparsedCandidateDicts,
          hints \in {None, Some(HintsWithStyle(None))}
                     \cup {Some([HintsWithStyle(Some("indian")) EXCEPT
                                   !.day_first_prob = Some(prob)]) :
                             prob \in {Rat(3, 10), Rat(1, 2), Rat(7, 10)}}}
  \cup {[fn |-> "normalize_document", candidates |-> E2ECandidates,
         hints |-> Some(E2EHints), tables |-> <<>>]}

\* candidates dicts with at most a currency candidate, whose value is not
\* empty (_build_candidate_from_anchor and _derive_currency_candidates drop
\* the empty values), and hints with glyphs that CURRENCY_GLYPH_MAP has or not
NormaliseCurrencyCalls ==
  LET Candidate(value_raw) ==
        [value_raw |-> value_raw,
         evidence |-> [page |-> 1, bbox |-> <<0, 0, 0, 0>>,
                       bbox_rel |-> <<RatZero, RatZero, RatZero, RatZero>>,
                       anchor_id |-> None, anchor_label |-> None, token_ids |-> <<>>]]
      RawPool == {"$", "US$ ", "usd", " Rs.", "EUR", "xyz", "dollars", "  ", "¥"}
      GlyphLists == {<<>>, <<"$">>, <<"€">>, <<"$", "€">>, <<"¥">>, <<"¥", "£">>}
  IN  {[fn |-> "_normalise_currency",
        candidates |-> [NoCandidates EXCEPT !["currency"] = currency],
        hints |-> hints] :
         currency \in {<<>>} \cup {<<Candidate(raw)>> : raw \in RawPool},
         hints \in {None} \cup {Some([HintsWithStyle(None) EXCEPT !.currency_glyphs = glyphs]) :
                                  glyphs \in GlyphLists}}

\* anchor lists of up to MaxAnchors anchors of two labels, in every order;
\* _detect_anomalies reads the label of an anchor only
DetectAnomaliesCalls ==
  LET Anchors(labels) ==
        [k \in 1..Len(labels) |-> [anchor_id |-> "p1-a" \o ToString(k), label |-> labels[k]]]
  IN  UNION {{[fn |-> "_detect_anomalies", anchors |-> Anchors(labels),
               tables |-> <<>>, candidates |-> NoCandidates] :
                labels \in [1..n -> {"total", "tax"}]}
             : n \in 0..MaxAnchors}

\* boxes inside and outside the page, with negative coordinates, and page
\* dimensions that are positive, zero and negative
ToRelativeBboxCalls ==
  LET CoordinatePool == {-150, -50, 0, 50, 150}
      DimensionPool == {-100, 0, 100}
  IN  {[fn |-> "_to_relative_bbox", bbox |-> <<x1, y1, x2, y2>>,
        width |-> width, height |-> height] :
         x1 \in CoordinatePool, y1 \in CoordinatePool, x2 \in CoordinatePool,
         y2 \in CoordinatePool, width \in DimensionPool, height \in DimensionPool}

Calls ==
  ParseNumberCalls \cup BuildTableCalls \cup NormalizeDocumentCalls
  \cup NormaliseCurrencyCalls \cup DetectAnomaliesCalls \cup ToRelativeBboxCalls

InitCalls ==
  /\ pc = "idle"
  /\ ocr = <<>>
  /\ Locals0
  /\ call \in Calls
  /\ ret = None
  /\ Service0
  /\ callers = <<>>
  /\ requests = <<>>
  /\ temp_dir = <<>>

CallParseNumber ==
  /\ call.fn = "_parse_number"
  /\ ret = None
  /\ ret' = Some(_parse_number(call.raw, call.hints))
  /\ UNCHANGED <<pipeVars, call, svcVars, reqVars>>

CallBuildTable ==
  /\ call.fn = "_build_table_from_blocks"
  /\ ret = None
  /\ LET texts == [k \in 1..Len(call.rows) |-> RowText(call.rows[k])]
         page == HintedPages(_normalise_pages(
                   Document(texts, [k \in 1..Len(texts) |-> 1], 1, call.size)))[1]
     IN  ret' = Some(_build_table_from_blocks(page, page.blocks, 1, <<call.size>>))
  /\ UNCHANGED <<pipeVars, call, svcVars, reqVars>>

CallNormalizeDocument ==
  /\ call.fn = "normalize_document"
  /\ ret = None
  /\ \E summary \in normalize_document(call.candidates, call.hints, call.tables) :
       ret' = Some(summary)
  /\ UNCHANGED <<pipeVars, call, svcVars, reqVars>>

CallNormaliseCurrency ==
  /\ call.fn = "_normalise_currency"
  /\ ret = None
  /\ ret' = Some(_normalise_currency(call.candidates, call.hints))
  /\ UNCHANGED <<pipeVars, call, svcVars, reqVars>>

CallDetectAnomalies ==
  /\ call.fn = "_detect_anomalies"
  /\ ret = None
  /\ \E found \in _detect_anomalies(call.anchors, call.tables, call.candidates) :
       ret' = Some(found)
  /\ UNCHANGED <<pipeVars, call, svcVars, reqVars>>

CallToRelativeBbox ==
  /\ call.fn = "_to_relative_bbox"
  /\ ret = None
  /\ ret' = Some(_to_relative_bbox(call.bbox, call.width, call.height))
  /\ UNCHANGED <<pipeVars, call, svcVars, reqVars>>

NextCalls ==
  \/ CallParseNumber
  \/ CallBuildTable
  \/ CallNormalizeDocument
  \/ CallNormaliseCurrency
  \/ CallDetectAnomalies
  \/ CallToRelativeBbox

SpecCalls == InitCalls /\ [][NextCalls]_vars

(***************************************************************************)
(* Lazy initialisation of the engines.  Each thread is a call of           *)
(* extract_from_pdf at lines 78-79: _get_detection_components(), then      *)
(* _get_recognition_components(language_codes).  A step is one read or one *)
(* write of an attribute of the service; a thread keeps in model the value *)
(* it read first of a pair it returns.                                     *)
(***************************************************************************)
\* if self._det_model and self._det_processor: return self._det_model, self._det_processor
DetCheck(t) ==
  /\ callers[t].pc \in {"det_check_model", "det_check_processor", "det_return_model",
                        "det_return_processor"}
  /\ callers' =
       [callers EXCEPT ![t] =
          CASE @.pc = "det_check_model" ->
                 [@ EXCEPT !.pc = IF _det_model # None THEN "det_check_processor"
                                  ELSE "det_acquire"]
            [] @.pc = "det_check_processor" ->
                 [@ EXCEPT !.pc = IF _det_processor # None THEN "det_return_model"
                                  ELSE "det_acquire"]
            [] @.pc = "det_return_model" ->
                 [@ EXCEPT !.pc = "det_return_processor", !.model = _det_model]
            [] @.pc = "det_return_processor" ->
                 [@ EXCEPT !.pc = "rec_check_key",
                           !.det = Some([model |-> callers[t].model,
                                         processor |-> _det_processor])]]
  /\ UNCHANGED <<_det_model, _det_processor, _det_lock, _rec_processor, _rec_model_cache,
                 _rec_lock, loads, pipeVars, call, ret, reqVars>>

\* with self._det_lock:
DetAcquire(t) ==
  /\ callers[t].pc = "det_acquire"
  /\ _det_lock = 0
  /\ _det_lock' = t
  /\ callers' = [callers EXCEPT ![t].pc = "det_recheck"]
  /\ UNCHANGED <<_det_model, _det_processor, _rec_processor, _rec_model_cache, _rec_lock,
                 loads, pipeVars, call, ret, reqVars>>

DetRecheckSkipped(t) ==
  /\ callers[t].pc = "det_recheck"
  /\ callers' = [callers EXCEPT ![t].pc = "det_load_processor"]
  /\ UNCHANGED <<_det_model, _det_processor, _det_lock, _rec_processor, _rec_model_cache,
                 _rec_lock, loads, pipeVars, call, ret, reqVars>>

\* the check under the lock; its return releases the lock
DetRecheck(t) ==
  /\ callers[t].pc = "det_recheck"
  /\ IF _det_model # None /\ _det_processor # None
     THEN /\ callers' = [callers EXCEPT
                           ![t].pc = "rec_check_key",
                           ![t].det = Some([model |-> _det_model,
                                            processor |-> _det_processor])]
          /\ _det_lock' = 0
     ELSE /\ callers' = [callers EXCEPT ![t].pc = "det_load_processor"]
          /\ UNCHANGED _det_lock
  /\ UNCHANGED <<_det_model, _det_processor, _rec_processor, _rec_model_cache, _rec_lock,
                 loads, pipeVars, call, ret, reqVars>>

\* self._det_processor = load_detection_processor()
DetLoadProcessor(t) ==
  /\ callers[t].pc = "det_load_processor"
  /\ loads' = [loads EXCEPT !.det_processor = @ + 1]
  /\ _det_processor' = Some(loads.det_processor + 1)
  /\ callers' = [callers EXCEPT ![t].pc = "det_load_model"]
  /\ UNCHANGED <<_det_model, _det_lock, _rec_processor, _rec_model_cache, _rec_lock,
                 pipeVars, call, ret, reqVars>>

\* self._det_model = load_detection_model(); the return releases the lock
DetLoadModel(t) ==
  /\ callers[t].pc = "det_load_model"
  /\ loads' = [loads EXCEPT !.det_model = @ + 1]
  /\ _det_model' = Some(loads.det_model + 1)
  /\ callers' = [callers EXCEPT
                   ![t].pc = "rec_check_key",
                   ![t].det = Some([model |-> Some(loads.det_model + 1),
                                    processor |-> _det_processor])]
  /\ _det_lock' = 0
  /\ UNCHANGED <<_det_processor, _rec_processor, _rec_model_cache, _rec_lock, pipeVars,
                 call, ret, reqVars>>

\* if key in self._rec_model_cache and self._rec_processor:
\*     return self._rec_model_cache[key], self._rec_processor
RecCheck(t) ==
  /\ callers[t].pc \in {"rec_check_key", "rec_check_processor", "rec_fast_model",
                        "rec_fast_processor"}
  /\ callers' =
       [callers EXCEPT ![t] =
          CASE @.pc = "rec_check_key" ->
                 [@ EXCEPT !.pc = IF _rec_model_cache[callers[t].key] # None
                                  THEN "rec_check_processor" ELSE "rec_acquire"]
            [] @.pc = "rec_check_processor" ->
                 [@ EXCEPT !.pc = IF _rec_processor # None THEN "rec_fast_model"
                                  ELSE "rec_acquire"]
            [] @.pc = "rec_fast_model" ->
                 [@ EXCEPT !.pc = "rec_fast_processor",
                           !.model = _rec_model_cache[callers[t].key]]
            [] @.pc = "rec_fast_processor" ->
                 [@ EXCEPT !.pc = "done",
                           !.rec = Some([model |-> callers[t].model,
                                         processor |-> _rec_processor])]]
  /\ UNCHANGED <<_det_model, _det_processor, _det_lock, _rec_processor, _rec_model_cache,
                 _rec_lock, loads, pipeVars, call, ret, reqVars>>

\* with self._rec_lock:
RecAcquire(t) ==
  /\ callers[t].pc = "rec_acquire"
  /\ _rec_lock = 0
  /\ _rec_lock' = t
  /\ callers' = [callers EXCEPT ![t].pc = "rec_load_processor"]
  /\ UNCHANGED <<_det_model, _det_processor, _det_lock, _rec_processor, _rec_model_cache,
                 loads, pipeVars, call, ret, reqVars>>

\* if self._rec_processor is None: self._rec_processor = load_recognition_processor()
RecLoadProcessor(t) ==
  /\ callers[t].pc = "rec_load_processor"
  /\ IF _rec_processor = None
     THEN /\ loads' = [loads EXCEPT !.rec_processor = @ + 1]
          /\ _rec_processor' = Some(loads.rec_processor + 1)
     ELSE UNCHANGED <<loads, _rec_processor>>
  /\ callers' = [callers EXCEPT ![t].pc = "rec_load_model"]
  /\ UNCHANGED <<_det_model, _det_processor, _det_lock, _rec_model_cache, _rec_lock,
                 pipeVars, call, ret, reqVars>>

RecLoadModelAlways(t) ==
  /\ callers[t].pc = "rec_load_model"
  /\ loads' = [loads EXCEPT !.rec_model[callers[t].key] = @ + 1]
  /\ _rec_model_cache' =
       [_rec_model_cache EXCEPT
          ![callers[t].key] = Some(loads.rec_model[callers[t].key] + 1)]
  /\ _rec_lock' = 0
  /\ callers' = [callers EXCEPT ![t].pc = "rec_return_model"]
  /\ UNCHANGED <<_det_model, _det_processor, _det_lock, _rec_processor, pipeVars, call, ret, reqVars>>

\* if key not in self._rec_model_cache:
\*     self._rec_model_cache[key] = load_recognition_model(langs=lang_tokens)
\* and the end of the with block, which releases the lock
RecLoadModel(t) ==
  /\ callers[t].pc = "rec_load_model"
  /\ IF _rec_model_cache[callers[t].key] = None
     THEN /\ loads' = [loads EXCEPT !.rec_model[callers[t].key] = @ + 1]
          /\ _rec_model_cache' =
               [_rec_model_cache EXCEPT
                  ![callers[t].key] = Some(loads.rec_model[callers[t].key] + 1)]
     ELSE UNCHANGED <<loads, _rec_model_cache>>
  /\ _rec_lock' = 0
  /\ callers' = [callers EXCEPT ![t].pc = "rec_return_model"]
  /\ UNCHANGED <<_det_model, _det_processor, _det_lock, _rec_processor, pipeVars, call, ret, reqVars>>

\* return self._rec_model_cache[key], self._rec_processor
RecReturn(t) ==
  /\ callers[t].pc \in {"rec_return_model", "rec_return_processor"}
  /\ callers' =
       [callers EXCEPT ![t] =
          IF @.pc = "rec_return_model"
          THEN [@ EXCEPT !.pc = "rec_return_processor",
                         !.model = _rec_model_cache[callers[t].key]]
          ELSE [@ EXCEPT !.pc = "done",
                         !.rec = Some([model |-> callers[t].model,
                                       processor |-> _rec_processor])]]
  /\ UNCHANGED <<_det_model, _det_processor, _det_lock, _rec_processor, _rec_model_cache,
                 _rec_lock, loads, pipeVars, call, ret, reqVars>>

\* MaxCallers threads enter extract_from_pdf on one service, each with its
\* language codes
InitEngines ==
  /\ pc = "idle"
  /\ ocr = <<>>
  /\ Locals0
  /\ call = NoCall
  /\ ret = None
  /\ Service0
  /\ callers \in [1..MaxCallers ->
                    {[pc |-> "det_check_model", key |-> key, model |-> None,
                      det |-> None, rec |-> None] : key \in LanguageKeys}]
  /\ requests = <<>>
  /\ temp_dir = <<>>

NextEngines ==
  \E t \in 1..MaxCallers :
    \/ DetCheck(t)
    \/ DetAcquire(t)
    \/ DetRecheck(t)
    \/ DetLoadProcessor(t)
    \/ DetLoadModel(t)
    \/ RecCheck(t)
    \/ RecAcquire(t)
    \/ RecLoadProcessor(t)
    \/ RecLoadModel(t)
    \/ RecReturn(t)

SpecEngines == InitEngines /\ [][NextEngines]_vars

(***************************************************************************)
(* POST /ocr/extract (app/api/routes.py): extract_upload, one action per   *)
(* stretch of the handler between two awaits.  A temporary file is named   *)
(* by the request that made it (uuid4().hex is taken to be unique).  Sizes *)
(* are counted in halves of the 1 MiB that one file.read returns at most.  *)
(***************************************************************************)
MaxRequests == 2
\* settings.max_upload_size_mb
MaxUploadSizeMb == 1
\* the 1024 * 1024 bytes of one chunk, in units of half a chunk
ChunkSize == 2

\* the requests: an upload that _validate_file accepts or not, of a size up
\* to one chunk above the limit
InitUpload ==
  /\ pc = "idle"
  /\ ocr = <<>>
  /\ Locals0
  /\ call = NoCall
  /\ ret = None
  /\ Service0
  /\ callers = <<>>
  /\ requests \in [1..MaxRequests ->
                     {[pc |-> "validate", valid |-> valid, unread |-> size,
                       total_bytes |-> 0, raised |-> None, response |-> None] :
                        valid \in BOOLEAN, size \in 0..((MaxUploadSizeMb + 1) * ChunkSize)}]
  /\ temp_dir = <<>>

\* _validate_file(file, settings), then tmp_path.open("wb") up to the first
\* await file.read
UploadOpen(r) ==
  /\ requests[r].pc = "validate"
  /\ IF ~requests[r].valid
     THEN /\ requests' = [requests EXCEPT ![r].pc = "done", ![r].response = Some("400")]
          /\ UNCHANGED temp_dir
     ELSE /\ requests' = [requests EXCEPT ![r].pc = "read"]
          /\ temp_dir' = (r :> 0) @@ temp_dir
  /\ UNCHANGED <<pipeVars, call, ret, svcVars>>

\* one iteration of the loop, from the chunk that file.read has returned to
\* the next await: file.read of the next iteration, or file.close of the
\* finally clause after the break or the HTTPException
UploadRead(r) ==
  /\ requests[r].pc = "read"
  /\ LET chunk == Min2(ChunkSize, requests[r].unread)
         total_bytes == requests[r].total_bytes + chunk
         max_bytes == MaxUploadSizeMb * ChunkSize
     IN  IF chunk = 0
         THEN /\ requests' = [requests EXCEPT ![r].pc = "close"]
              /\ UNCHANGED temp_dir
         ELSE IF total_bytes > max_bytes
         THEN /\ requests' = [requests EXCEPT ![r].pc = "close",
                                              ![r].total_bytes = total_bytes,
                                              ![r].raised = Some("413")]
              /\ UNCHANGED temp_dir
         ELSE /\ requests' = [requests EXCEPT ![r].total_bytes = total_bytes,
                                              ![r].unread = @ - chunk]
              /\ temp_dir' = [temp_dir EXCEPT ![r] = @ + chunk]
  /\ UNCHANGED <<pipeVars, call, ret, svcVars>>

\* after await file.close(): the HTTPException leaves the handler, or
\* _parse_languages and the call of _run_ocr up to its await
UploadClose(r) ==
  /\ requests[r].pc = "close"
  /\ requests' = IF requests[r].raised # None
                 THEN [requests EXCEPT ![r].pc = "done", ![r].response = requests[r].raised]
                 ELSE [requests EXCEPT ![r].pc = "run_ocr"]
  /\ UNCHANGED <<temp_dir, pipeVars, call, ret, svcVars>>

\* _run_ocr returns the result or raises, and the finally clause unlinks
\* tmp_path
UploadRunOcr(r) ==
  /\ requests[r].pc = "run_ocr"
  /\ \E outcome \in {"result", "error"} :
       requests' = [requests EXCEPT ![r].pc = "done", ![r].response = Some(outcome)]
  /\ temp_dir' = [f \in DOMAIN temp_dir \ {r} |-> temp_dir[f]]
  /\ UNCHANGED <<pipeVars, call, ret, svcVars>>

NextUpload ==
  \E r \in 1..MaxRequests :
    \/ UploadOpen(r)
    \/ UploadRead(r)
    \/ UploadClose(r)
    \/ UploadRunOcr(r)

SpecUpload == InitUpload /\ [][NextUpload]_vars

(***************************************************************************)
(* Properties of extract_from_pdf (Spec) and of the units (SpecCalls).     *)
(***************************************************************************)
\* the call of normalize_document on the candidates of the end-to-end example
E2ECall == call.fn = "normalize_document" /\ call.candidates = E2ECandidates

\* C1: for the page of the end-to-end example, the po_number candidate taken
\* from the po_number anchor is the identifier after the label:
\* normalized.fields.po_number.normalized is "PO-88214".
C1_PoNumberIsIdentifier ==
  (E2ECall /\ ret # None) =>
    /\ ret[1] # None
    /\ "po_number" \in DOMAIN ret[1][1].fields
    /\ ret[1][1].fields["po_number"].normalized = Some("PO-88214")

PositiveDimensions == \A p \in 1..Len(ocr) : ocr[p].width > 0 /\ ocr[p].height > 0

\* C2: for every input whose pages have positive dimensions the pipeline
\* never ends in an error state, pages with a run of two or more table lines
\* included.
C2_NeverEndsInError == PositiveDimensions => pc # "error"

\* whether a supplied table has a parseable amount in the rightmost column of
\* a non-header row
SomeTableHasAmounts ==
  \E k \in 1..Len(call.tables) : TableAmounts(call.tables[k], call.hints) # <<>>

\* C3: whenever a supplied table has a parseable amount in the rightmost
\* column of a non-header row, the recomputed total is a table sum (source
\* "table_sum"), also when the totals candidates carry anchor ids p{page}-a{n}.
C3_TableSumPreferred ==
  (call.fn = "normalize_document" /\ ret # None /\ SomeTableHasAmounts) =>
    /\ ret[1] # None
    /\ ret[1][1].totals # None
    /\ ret[1][1].totals[1].recomputed_total # None
    /\ ret[1][1].totals[1].recomputed_total[1].metadata["source"] = "table_sum"

\* the totals of a returned summary, when it has some
ReturnedTotals ==
  IF call.fn = "normalize_document" /\ ret # None /\ ret[1] # None
  THEN ret[1][1].totals ELSE None

\* G: the parsed grand total of the returned summary, when it parsed
ReturnedGrand ==
  IF "grand_total" \in DOMAIN ret[1][1].fields
     /\ ret[1][1].fields["grand_total"].value_type = "number"
  THEN ToDecimal(ret[1][1].fields["grand_total"].normalized[1])
  ELSE None

\* R: the recomputed total of the returned summary, when there is one
ReturnedRecomputed ==
  IF ReturnedTotals[1].recomputed_total # None
  THEN ToDecimal(ReturnedTotals[1].recomputed_total[1].normalized[1])
  ELSE None

\* the returned totals compare G = grand with the recomputed total text
Compared(grand, recomputed) ==
  /\ ReturnedTotals # None
  /\ "grand_total" \in DOMAIN ret[1][1].fields
  /\ ret[1][1].fields["grand_total"].raw = Some(grand)
  /\ ReturnedTotals[1].recomputed_total # None
  /\ ReturnedTotals[1].recomputed_total[1].normalized = Some(recomputed)

\* C4: when the grand total parses to G and a recomputed total R exists, the
\* difference is |G - R| and the status is "ok" iff |G - R| <= 0.01, else
\* "mismatch"; "1,200.00" against 1199.99 gives 0.01 and "ok", against
\* 1199.98 gives 0.02 and "mismatch"; the difference is null when G or R is
\* missing.
C4_TotalsTolerance ==
  /\ ReturnedTotals # None =>
       IF ReturnedGrand # None /\ ReturnedRecomputed # None
       THEN /\ ReturnedTotals[1].difference # None
            /\ DecEq(ReturnedTotals[1].difference[1],
                     DecAbs(DecSub(ReturnedGrand[1], ReturnedRecomputed[1])))
            /\ ReturnedTotals[1].status =
                 IF DecLeq(DecAbs(DecSub(ReturnedGrand[1], ReturnedRecomputed[1])),
                           Dec(1, 2))
                 THEN "ok" ELSE "mismatch"
       ELSE ReturnedTotals[1].difference = None
  /\ Compared("1,200.00", "1199.99") =>
       /\ DecEq(ReturnedTotals[1].difference[1], Dec(1, 2))
       /\ ReturnedTotals[1].status = "ok"
  /\ Compared("1,200.00", "1199.98") =>
       /\ DecEq(ReturnedTotals[1].difference[1], Dec(2, 2))
       /\ ReturnedTotals[1].status = "mismatch"

\* a grand total of "1,200.00" was compared with a table sum of 1199.99
C4_BoundaryCompared ==
  /\ Compared("1,200.00", "1199.99")
  /\ ReturnedTotals[1].recomputed_total[1].metadata["source"] = "table_sum"
  /\ ReturnedTotals[1].status = "ok"

\* C5: for the page of the end-to-end example the returned result has an
\* anchor po_number for line 0, an anchor ship_to for line 1, no other
\* anchor, and exactly one table, of 2 rows and 3 columns, built from lines
\* 2-3.
C5_E2EStructure ==
  (ocr = E2EDocument /\ pc \in {"done", "error"}) =>
    /\ pc = "done"
    /\ result # None
    /\ result[1].anchors # None
    /\ Len(result[1].anchors[1]) = 2
    /\ result[1].anchors[1][1].label = "po_number"
    /\ result[1].anchors[1][1].token_ids[1] = "p1-l0-line"
    /\ result[1].anchors[1][2].label = "ship_to"
    /\ result[1].anchors[1][2].token_ids[1] = "p1-l1-line"
    /\ result[1].tables # None
    /\ Len(result[1].tables[1]) = 1
    /\ result[1].tables[1][1].n_rows = 2
    /\ result[1].tables[1][1].n_cols = 3

\* _normalise_pages has returned
Normalised == pc \notin {"idle", "normalise_pages"}

\* the tokens of a block are its line token, then its word tokens in word
\* order, and the block has the reading order of its line token
LineThenWords(block) ==
  /\ block.tokens[1].token_type = "line"
  /\ block.tokens[1].text = block.text
  /\ block.reading_order = block.tokens[1].reading_order
  /\ [j \in 1..(Len(block.tokens) - 1) |-> block.tokens[j + 1].text]
       = _split_words(block.text)
  /\ \A j \in 2..Len(block.tokens) :
       /\ block.tokens[j].token_type = "word"
       /\ block.tokens[j].order_in_block = Some(j - 2)

\* C6: over the document-wide token list reading_order starts at 1 and each
\* token's value is one more than the previous token's; the list holds, page
\* after page and line after line, each line's line token and then its word
\* tokens in word order; each block has the reading order of its line token.
\* The values depend on nothing but the position in the input.
C6_ReadingOrder ==
  Normalised =>
    /\ \A k \in 1..Len(document_tokens) : document_tokens[k].reading_order = k
    /\ document_tokens = AllTokens(pages)
    /\ Len(pages) = Len(ocr)
    /\ \A p \in 1..Len(pages) :
         /\ pages[p].tokens
              = FlattenSeq([b \in 1..Len(pages[p].blocks) |-> pages[p].blocks[b].tokens])
         /\ Len(pages[p].blocks) = Len(ocr[p].text_lines)
         /\ \A b \in 1..Len(pages[p].blocks) :
              /\ pages[p].blocks[b].text = StrStrip(ocr[p].text_lines[b].text)
              /\ LineThenWords(pages[p].blocks[b])

\* two pages were normalised, each with a line of two words or more
C6_TwoPagesOfWords ==
  /\ Normalised
  /\ Len(pages) = 2
  /\ \A p \in 1..2 : \E b \in 1..Len(pages[p].blocks) : Len(pages[p].blocks[b].tokens) >= 3

\* C7: no two tokens of a document (line tokens and word tokens together)
\* share an id, and the block ids are pairwise distinct.
C7_UniqueIds ==
  Normalised =>
    /\ \A i, j \in 1..Len(document_tokens) :
         i # j => document_tokens[i].id # document_tokens[j].id
    /\ \A i, j \in 1..Len(AllBlocks(pages)) :
         i # j => AllBlocks(pages)[i].block_id # AllBlocks(pages)[j].block_id

\* the normalised document has two lines on one page and a line on another,
\* each with words
C7_LinesOnTwoPages ==
  /\ Normalised
  /\ Len(pages) = 2
  /\ Len(AllBlocks(pages)) >= 2
  /\ \A p \in 1..2 : pages[p].blocks # <<>>
  /\ \A b \in 1..Len(AllBlocks(pages)) : Len(AllBlocks(pages)[b].tokens) >= 2

\* the text a row of segments must have in column c of a table of n columns
ReconciledText(segments, n, c) ==
  IF Len(segments) <= n
  THEN (IF c < Len(segments) THEN segments[c + 1] ELSE "")
  ELSE IF c < n - 1 THEN segments[c + 1]
  ELSE StrJoin(SubSeq(segments, n, Len(segments)), " ")

\* the table returned for a run of header ["ITEM", "QTY", "PRICE"] and rows
BuiltFrom(header) ==
  call.fn = "_build_table_from_blocks" /\ ret # None /\ call.rows[1] = header

\* C8: each row of a table has exactly n_cols cells, of columns 0..n_cols-1;
\* a row with fewer segments than the header is right-padded with empty
\* cells (header ["ITEM","QTY","PRICE"] and row ["A","2"] give
\* cell(1,2).text = ""), a row with more segments keeps its first n_cols-1
\* segments and merges the remaining ones, in order, into the last column.
C8_RowReconciliation ==
  /\ (call.fn = "_build_table_from_blocks" /\ ret # None) =>
       /\ ret[1] # None
       /\ ret[1][1].n_cols = Len(call.rows[1])
       /\ ret[1][1].n_rows = Len(call.rows)
       /\ Len(ret[1][1].cells) = ret[1][1].n_rows * ret[1][1].n_cols
       /\ \A r \in 0..(ret[1][1].n_rows - 1), c \in 0..(ret[1][1].n_cols - 1) :
            /\ ret[1][1].cells[r * ret[1][1].n_cols + c + 1].row = r
            /\ ret[1][1].cells[r * ret[1][1].n_cols + c + 1].column = c
            /\ ret[1][1].cells[r * ret[1][1].n_cols + c + 1].text
                 = ReconciledText(call.rows[r + 1], ret[1][1].n_cols, c)
  /\ (BuiltFrom(<<"ITEM", "QTY", "PRICE">>) /\ call.rows[2] = <<"A", "2">>) =>
       ret[1][1].cells[6].text = ""

\* a table was built from a short row and from a long row
C8_ShortAndLongRows ==
  /\ BuiltFrom(<<"ITEM", "QTY", "PRICE">>)
  /\ Len(call.rows) = 3
  /\ call.rows[2] = <<"A", "2">>
  /\ call.rows[3] = <<"A", "2", "5.00", "x">>
  /\ ret[1][1].cells[9].text = "5.00 x"

\* the separator among "," and "." that occurs last in text
LastSeparator(text) ==
  CharAt(text, SetMax({k \in 1..Len(text) : CharAt(text, k) \in {",", "."}}))

\* the text that the separator rule makes of the kept characters
SeparatorRule(kept, hints) ==
  IF HasChar(kept, ",") /\ HasChar(kept, ".")
  THEN (IF LastSeparator(kept) = ","
        THEN StrReplace(StrReplace(kept, ".", ""), ",", ".")
        ELSE StrReplace(kept, ",", ""))
  ELSE IF HasChar(kept, ",")
  THEN (IF hints # None /\ hints[1].numbering_style = Some("indian")
        THEN StrReplace(kept, ",", "")
        ELSE StrReplace(kept, ",", "."))
  ELSE kept

ParsedAs(raw, numbering_style) ==
  /\ call.fn = "_parse_number"
  /\ ret # None
  /\ call.raw = Some(raw)
  /\ call.hints = Some(HintsWithStyle(Some(numbering_style)))

\* C9: the number parsed is the decimal of the text left by the separator
\* rule: with the characters other than digits, comma, dot and minus
\* stripped, if both comma and dot occur the last one is the decimal
\* separator and the other is removed; if only commas occur they are removed
\* under "indian" and replaced by a decimal point otherwise.  "1,000.50"
\* under "international" is 1000.50 and "1,00,000" under "indian" is 100000.
C9_SeparatorRule ==
  /\ (call.fn = "_parse_number" /\ ret # None) =>
       ret[1].value =
         IF StrStrip(call.raw[1]) = "" THEN None
         ELSE ToDecimal(SeparatorRule(StrKeep(StrStrip(call.raw[1]),
                                              Digit \cup {",", ".", "-"}),
                                      call.hints))
  /\ ParsedAs("1,000.50", "international") => ret[1].value = Some(Dec(100050, 2))
  /\ ParsedAs("1,00,000", "indian") => ret[1].value = Some(Dec(100000, 0))

\* "1,000.50" was parsed under "international"
C9_ParsedInternational ==
  /\ ParsedAs("1,000.50", "international")
  /\ ret[1].value # None

\* the hinter has run over a document that has the token "05/13/2024"
HintedTheDate ==
  /\ stats_trace # <<>>
  /\ \E k \in 1..Len(document_tokens) : document_tokens[k].text = "05/13/2024"

\* the counters of stats_trace[k + 1] are those of stats_trace[k] with the
\* counter cls one higher
Increments(k, cls) ==
  \A c \in {"day_first", "month_first", "ambiguous"} :
    stats_trace[k + 1].date_counts[c]
      = stats_trace[k].date_counts[c] + (IF c = cls THEN 1 ELSE 0)

\* C10 as stated: the hinter, on the token "05/13/2024", increments the
\* day-first counter by one and leaves the month-first and ambiguous counters
\* unchanged.
C10_IncrementsDayFirst ==
  stats_trace # <<>> =>
    \A k \in 1..Len(document_tokens) :
      document_tokens[k].text = "05/13/2024" => Increments(k, "day_first")

\* C10 amended: the hinter, on the token "05/13/2024" (first component 5 <=
\* 12, second component 13 > 12), increments the month-first counter by one
\* and leaves the day-first and ambiguous counters unchanged.
C10_IncrementsMonthFirst ==
  stats_trace # <<>> =>
    \A k \in 1..Len(document_tokens) :
      document_tokens[k].text = "05/13/2024" => Increments(k, "month_first")

\* C11: the k-th anchor found on page P, in block order, has the id
\* p{P}-a{k}: the first anchor of every page has the suffix a1, however many
\* anchors the earlier pages have.
C11_AnchorIdsPerPage ==
  \A k \in 1..Len(anchors) :
    anchors[k].anchor_id
      = "p" \o ToString(anchors[k].page) \o "-a"
          \o ToString(Cardinality({j \in 1..k : anchors[j].page = anchors[k].page}))

\* C12: the context of an anchor holds none of the anchor's own tokens; it is,
\* in page token order, the other tokens of the anchor's page whose top-left
\* corner (x, y) has x1 <= x <= x2 + 300 and y1 <= y <= y2 + 300 for the
\* anchor box [x1, y1, x2, y2]; it holds no token of another page.
C12_AnchorContext ==
  \A k \in 1..Len(anchors) :
    LET anchor == anchors[k]
        InWindow(token) ==
          /\ anchor.bbox[1] <= token.bbox[1] /\ token.bbox[1] <= anchor.bbox[3] + 300
          /\ anchor.bbox[2] <= token.bbox[2] /\ token.bbox[2] <= anchor.bbox[4] + 300
        Others(page_tokens) ==
          SelectSeq(page_tokens,
                    LAMBDA token : token.id \notin SeqRange(anchor.token_ids))
    IN  /\ SeqRange(anchor.context_token_ids) \cap SeqRange(anchor.token_ids) = {}
        /\ anchor.context_token_ids
             = TokenIds(SelectSeq(Others(pages[anchor.page].tokens), InWindow))
        /\ \A p \in 1..Len(pages) :
             p # anchor.page =>
               SeqRange(anchor.context_token_ids) \cap SeqRange(TokenIds(pages[p].tokens)) = {}

\* an anchor of a document of two pages whose context holds a token on the far
\* corner of the window, and one with a token of its page one pixel past it
C12_WindowCorners ==
  /\ pc = "done"
  /\ Len(pages) = 2
  /\ \E k \in 1..Len(anchors) :
       /\ anchors[k].context_token_ids # <<>>
       /\ \E j \in 1..Len(pages[anchors[k].page].tokens) :
            LET token == pages[anchors[k].page].tokens[j]
            IN  /\ token.id \in SeqRange(anchors[k].context_token_ids)
                /\ token.bbox[1] = anchors[k].bbox[3] + 300
                /\ token.bbox[2] = anchors[k].bbox[4] + 300

\* C20: for an anchor of a date field (resp. a money field), when a token of
\* the anchor's search list, its own tokens then its context tokens, carries
\* a date (resp. money) hint, the candidate built from the anchor is the first
\* hinted token of the list.
C20_HintedTokenFirst ==
  pc \in {"compute_document_hints", "normalize_document", "build_fingerprint",
          "detect_anomalies", "return", "done"} =>
    \A k \in 1..Len(anchors) :
      LET field == _anchor_label_to_field(anchors[k].label)
          maybe == IF field \in {Some("po_date"), Some("invoice_date")} THEN "date"
                   ELSE "money"
          ids == anchors[k].token_ids \o anchors[k].context_token_ids
          search_list ==
            SelectSeq(document_tokens, LAMBDA token : token.id \in SeqRange(ids))
          InListOrder(j) ==
            CHOOSE token \in SeqRange(search_list) : token.id = ids[j]
          hinted == {j \in 1..Len(ids) : HintIs(InListOrder(j), maybe)}
      IN  (/\ field \in {Some("po_date"), Some("invoice_date"), Some("subtotal"),
                         Some("tax_total"), Some("grand_total")}
           /\ hinted # {})
          => \E c \in 1..Len(candidates[field[1]]) :
               /\ candidates[field[1]][c].evidence.anchor_id = Some(anchors[k].anchor_id)
               /\ candidates[field[1]][c].evidence.token_ids
                    = <<InListOrder(SetMin(hinted)).id>>
               /\ candidates[field[1]][c].value_raw
                    = StrStrip(InListOrder(SetMin(hinted)).text)

\* the currency candidate of a call of _normalise_currency resolves through the
\* glyph map (a glyph in the stripped value) or the word map
CurrencyResolves(raw) ==
  \/ \E k \in 1..Len(CURRENCY_GLYPH_MAP) : HasChar(StrStrip(raw), CURRENCY_GLYPH_MAP[k].glyph)
  \/ StrLower(StrStrip(raw)) \in DOMAIN CURRENCY_WORD_MAP
  \/ StrLower(raw) \in DOMAIN CURRENCY_WORD_MAP

HintGlyphsOfCall == IF call.hints = None THEN <<>> ELSE call.hints[1].currency_glyphs

\* C13: without a currency candidate and with the hint glyphs ["$"] the
\* normalized currency is "USD" with confidence 0.9; without a candidate and
\* without a hint glyph the field is absent; with a candidate that neither map
\* resolves and no hint glyph of the glyph map, the field is present with
\* normalized null and confidence 0.5.
C13_CurrencyResolution ==
  (call.fn = "_normalise_currency" /\ ret # None) =>
    LET currency == call.candidates["currency"]
        value == ret[1]
    IN  /\ (currency = <<>> /\ HintGlyphsOfCall = <<"$">>)
             => /\ value # None
                /\ value[1].normalized = Some("USD")
                /\ value[1].confidence = Some(Rat(9, 10))
        /\ (currency = <<>> /\ HintGlyphsOfCall = <<>>) => value = None
        /\ (/\ currency # <<>>
            /\ ~CurrencyResolves(currency[1].value_raw)
            /\ \A k \in 1..Len(HintGlyphsOfCall) :
                 \A j \in 1..Len(CURRENCY_GLYPH_MAP) :
                    CURRENCY_GLYPH_MAP[j].glyph # HintGlyphsOfCall[k])
             => /\ value # None
                /\ value[1].normalized = None
                /\ value[1].confidence = Some(Rat(5, 10))

\* the call without a candidate and with the hint glyphs ["$"] has returned USD
C13_DollarFromHints ==
  /\ call.fn = "_normalise_currency"
  /\ call.candidates["currency"] = <<>>
  /\ HintGlyphsOfCall = <<"$">>
  /\ ret # None
  /\ ret[1] # None
  /\ ret[1][1].normalized = Some("USD")
  /\ ret[1][1].metadata["source"] = "document_hint"

\* the number of "anchor_excess" anomalies of the returned list for a label
ExcessAnomalies(label) ==
  Cardinality({k \in 1..Len(ret[1]) :
                 ret[1][k].code = "anchor_excess" /\ ret[1][k].label = label})

OccurrencesInCall(label) ==
  Cardinality({k \in 1..Len(call.anchors) : call.anchors[k].label = label})

\* C14: the anomaly detector emits exactly one "anchor_excess" anomaly for each
\* label that occurs more than 3 times in the anchor list, and none for a
\* label that occurs 3 times or fewer.
C14_AnchorExcess ==
  (call.fn = "_detect_anomalies" /\ ret # None) =>
    /\ \A label \in {"total", "tax"} :
         ExcessAnomalies(label) = IF OccurrencesInCall(label) > 3 THEN 1 ELSE 0
    /\ \A k \in 1..Len(ret[1]) :
         ret[1][k].code = "anchor_excess" => ret[1][k].label \in {"total", "tax"}

\* a returned list for anchors with "total" 4 times and "tax" 3 times
C14_FourTotalsThreeTaxes ==
  /\ call.fn = "_detect_anomalies"
  /\ ret # None
  /\ OccurrencesInCall("total") = 4
  /\ OccurrencesInCall("tax") = 3
  /\ ExcessAnomalies("total") = 1

\* every component of a relative box is a ratio of [0, 1]
InUnitBox(bbox_rel) ==
  \A i \in 1..4 :
    /\ bbox_rel[i].d # 0
    /\ bbox_rel[i].n * bbox_rel[i].d >= 0
    /\ Abs(bbox_rel[i].n) <= Abs(bbox_rel[i].d)

\* C15: every component of a bbox_rel lies in [0, 1]: of the box that
\* _to_relative_bbox returns for any absolute box and any page dimensions (the
\* bbox_rel of the tokens, blocks and zones), and of a table and its cells.
C15_BboxRelInUnit ==
  /\ (call.fn = "_to_relative_bbox" /\ ret # None) => InUnitBox(ret[1])
  /\ (call.fn = "_build_table_from_blocks" /\ ret # None /\ ret[1] # None) =>
       /\ InUnitBox(ret[1][1].bbox_rel)
       /\ \A k \in 1..Len(ret[1][1].cells) : InUnitBox(ret[1][1].cells[k].bbox_rel)

\* a box with corners left of and right of the page was made relative
C15_BoxAcrossThePage ==
  /\ call.fn = "_to_relative_bbox"
  /\ call.bbox = <<-50, -150, 150, 50>>
  /\ call.width = 100
  /\ call.height = 100
  /\ ret = Some(<<RatZero, RatZero, RatOne, Rat(50, 100)>>)

\* C16: when the width or the height of the page is zero or negative,
\* bbox_rel is [0, 0, 0, 0] whatever the absolute box is.
C16_ZerosWithoutDimensions ==
  (call.fn = "_to_relative_bbox" /\ ret # None /\ (call.width <= 0 \/ call.height <= 0)) =>
    \A i \in 1..4 : ret[1][i].n = 0

\* no format of the three lists parses the cleaned date text, nor, with its
\* separators replaced by "/", the text with "." and "-" replaced by "/"
NoDateFormatParses(raw) ==
  LET cleaned == StrStrip(ReplaceDoubleSpace(StrReplace(StrStrip(raw), ",", " ")))
      coerced == StrReplace(StrReplace(cleaned, ".", "/"), "-", "/")
      formats ==
        SeqRange(DATE_FORMATS_DAY_FIRST \o DATE_FORMATS_MONTH_FIRST \o DATE_FORMATS_NEUTRAL)
  IN  \A f \in formats :
        /\ Strptime(cleaned, f) = None
        /\ Strptime(coerced, StrReplace(StrReplace(f, "-", "/"), ".", "/")) = None

\* C17: in the summary that normalize_document returns, a date field whose
\* non-empty candidate no format parses (also after the retry with coerced
\* separators) has normalized null and confidence 0.4, a numeric field whose
\* candidate does not parse has normalized null and confidence 0.6, and the
\* raw value of either field is the raw value of its candidate.
C17_ParsersDegrade ==
  (call.fn = "normalize_document" /\ ret # None /\ HasCandidates(call.candidates)) =>
    /\ ret[1] # None
    /\ \A f \in {"po_date", "invoice_date"} :
         call.candidates[f] # <<>> =>
           /\ f \in DOMAIN ret[1][1].fields
           /\ ret[1][1].fields[f].raw = Some(call.candidates[f][1].value_raw)
           /\ NoDateFormatParses(call.candidates[f][1].value_raw) =>
                /\ ret[1][1].fields[f].normalized = None
                /\ ret[1][1].fields[f].confidence = Some(Rat(4, 10))
    /\ \A f \in {"subtotal", "tax_total", "grand_total"} :
         call.candidates[f] # <<>> =>
           /\ f \in DOMAIN ret[1][1].fields
           /\ ret[1][1].fields[f].raw = Some(call.candidates[f][1].value_raw)
           /\ _parse_number(Some(call.candidates[f][1].value_raw), call.hints).value = None =>
                /\ ret[1][1].fields[f].normalized = None
                /\ ret[1][1].fields[f].confidence = Some(Rat(6, 10))

\* a summary for a date of a day that does not exist and an amount without
\* digits
C17_NothingParsed ==
  /\ call.fn = "normalize_document"
  /\ call.candidates["po_date"] # <<>>
  /\ call.candidates["po_date"][1].value_raw = "31/02/2024"
  /\ call.candidates["grand_total"] # <<>>
  /\ call.candidates["grand_total"][1].value_raw = "n/a"
  /\ ret # None
  /\ ret[1][1].fields["po_date"].normalized = None
  /\ ret[1][1].fields["po_date"].raw = Some("31/02/2024")
  /\ ret[1][1].fields["grand_total"].confidence = Some(Rat(6, 10))

\* C18: under every interleaving of the callers of _get_detection_components
\* the detection processor loader and the detection model loader are each
\* invoked at most once, and no caller returns a pair whose model or
\* processor is unset.
C18_DetectionLoadedOnce ==
  /\ loads.det_processor <= 1
  /\ loads.det_model <= 1
  /\ \A t \in DOMAIN callers :
       callers[t].det # None =>
         /\ callers[t].det[1].model # None
         /\ callers[t].det[1].processor # None

\* every caller has returned the detection components, which were loaded once
C18_AllReturnedDetection ==
  /\ DOMAIN callers = 1..MaxCallers
  /\ \A t \in DOMAIN callers :
       callers[t].det = Some([model |-> Some(1), processor |-> Some(1)])
  /\ loads.det_model = 1
  /\ loads.det_processor = 1

\* C19: under every interleaving of the callers of
\* _get_recognition_components the recognition processor is loaded at most
\* once and the recognition model at most once for each language tuple, an
\* entry of the cache, once written, is never replaced or removed, and each
\* caller returns the model stored under its own key with a processor that
\* is set.
C19_RecognitionLoadedOnce ==
  /\ [](/\ loads.rec_processor <= 1
        /\ \A key \in LanguageKeys : loads.rec_model[key] <= 1
        /\ \A t \in DOMAIN callers :
             callers[t].rec # None =>
               /\ callers[t].rec[1].model # None
               /\ callers[t].rec[1].model = _rec_model_cache[callers[t].key]
               /\ callers[t].rec[1].processor # None)
  /\ [][\A key \in LanguageKeys :
          _rec_model_cache[key] # None => _rec_model_cache'[key] = _rec_model_cache[key]]_vars

\* callers with different language tuples have both returned: one processor,
\* a model for each tuple
C19_TwoTuplesReturned ==
  /\ DOMAIN callers = 1..MaxCallers
  /\ \A t \in DOMAIN callers : callers[t].pc = "done" /\ callers[t].rec # None
  /\ \E t, u \in DOMAIN callers : callers[t].key # callers[u].key
  /\ \A key \in LanguageKeys : loads.rec_model[key] = 1
  /\ loads.rec_processor = 1

\* the labels in the order of the label table
LabelOrder ==
  <<"po_number", "po_date", "order_reference", "bill_to", "ship_to", "vendor",
    "invoice_number", "invoice_date", "total", "subtotal", "tax">>

\* the positions in the label table of the labels with a pattern found in text
MatchingLabels(text) ==
  {k \in 1..Len(_anchor_patterns) :
     \E j \in 1..Len(_anchor_patterns[k].patterns) :
        ReSearch(_anchor_patterns[k].patterns[j], StrLower(text))}

\* the anchors made of a block
AnchorsOfBlock(block) ==
  {k \in 1..Len(anchors) :
     anchors[k].page = block.page /\ anchors[k].token_ids = TokenIds(block.tokens)}

\* C21: each block yields at most one anchor, labelled with the earliest label
\* of the order po_number, po_date, order_reference, bill_to, ship_to, vendor,
\* invoice_number, invoice_date, total, subtotal, tax that has a pattern
\* matching the block text (total for a block that matches total and
\* subtotal); a block that matches no pattern yields no anchor.
C21_FirstMatchingLabel ==
  pc \notin {"idle", "normalise_pages", "apply_token_hints", "build_zones", "detect_anchors"} =>
    /\ \A k \in 1..Len(LabelOrder) : _anchor_patterns[k].label = LabelOrder[k]
    /\ \A p \in 1..Len(pages) :
         \A b \in 1..Len(pages[p].blocks) :
           LET block == pages[p].blocks[b]
           IN  IF MatchingLabels(block.text) = {}
               THEN AnchorsOfBlock(block) = {}
               ELSE /\ Cardinality(AnchorsOfBlock(block)) = 1
                    /\ \A k \in AnchorsOfBlock(block) :
                         anchors[k].label = LabelOrder[SetMin(MatchingLabels(block.text))]
    /\ \A k \in 1..Len(anchors) :
         {9, 10} \subseteq MatchingLabels(anchors[k].text) => anchors[k].label = "total"

\* a line that matches the total and the subtotal patterns was labelled, above
\* a line that matches the subtotal pattern only
C21_SubTotalLine ==
  /\ pc = "done"
  /\ Len(anchors) = 2
  /\ anchors[1].text = "Sub Total: 5"
  /\ anchors[1].label = "total"
  /\ MatchingLabels(anchors[1].text) = {9, 10}
  /\ anchors[2].label = "subtotal"

\* the lengths of the pieces into which the characters of seps cut text
PieceLens(text, seps) ==
  LET cuts == {i \in 1..Len(text) : CharAt(text, i) \in seps} \cup {0, Len(text) + 1}
      Cut(k) == CHOOSE b \in cuts : Cardinality({c \in cuts : c < b}) = k - 1
  IN  [k \in 1..(Cardinality(cuts) - 1) |-> Cut(k + 1) - Cut(k) - 1]

\* text is digits cut by the characters of seps into pieces whose lengths are
\* in the ranges of lens, piece by piece
PiecesWithin(text, seps, lens) ==
  /\ \A i \in 1..Len(text) : CharAt(text, i) \in Digit \cup seps
  /\ Len(PieceLens(text, seps)) = Len(lens)
  /\ \A k \in 1..Len(lens) : PieceLens(text, seps)[k] \in lens[k]

\* text is groups of digits between commas, the first group of a length in
\* first and the others of a length in others, with at least one comma and
\* possibly a fraction of one digit or more after a dot
GroupedNumber(text, first, others) ==
  LET dots == {i \in 1..Len(text) : CharAt(text, i) = "."}
      whole == IF dots = {} THEN text ELSE SubSeq(text, 1, SetMin(dots) - 1)
      fraction == IF dots = {} THEN "0" ELSE SubSeq(text, SetMin(dots) + 1, Len(text))
  IN  /\ fraction # "" /\ \A i \in 1..Len(fraction) : CharAt(fraction, i) \in Digit
      /\ \A i \in 1..Len(whole) : CharAt(whole, i) \in Digit \cup {","}
      /\ HasChar(whole, ",")
      /\ PieceLens(whole, {","})[1] \in first
      /\ \A k \in 2..Len(PieceLens(whole, {","})) : PieceLens(whole, {","})[k] \in others

\* the rules of the token hinter that a non-empty stripped text falls under,
\* numbered in the order of the claim: 1 glyph followed by a digit, 2 exact
\* currency word, 3 glyph anywhere, 4 d/m/y date, 5 ISO date, 6 Indian-grouped
\* number, 7 international-grouped number, 8 other comma number
HintRules(text) ==
  LET after_glyph == StrStrip(SubSeq(text, 2, Len(text)))
  IN  {r \in 1..8 :
         CASE r = 1 -> /\ text # "" /\ CharAt(text, 1) \in Glyphs
                       /\ after_glyph # "" /\ CharAt(after_glyph, 1) \in Digit
           [] r = 2 -> StrLower(text) \in {"rs", "rs.", "inr", "usd", "eur", "gbp", "aud", "cad"}
           [] r = 3 -> \E g \in Glyphs : HasChar(text, g)
           [] r = 4 -> PiecesWithin(text, {"/", "-"}, <<1..2, 1..2, 2..4>>)
           [] r = 5 -> PiecesWithin(text, {"/", "-"}, <<4..4, 1..2, 1..2>>)
           [] r = 6 -> GroupedNumber(text, 1..2, 2..2)
           [] r = 7 -> GroupedNumber(text, 1..3, 3..3)
           [] r = 8 -> GroupedNumber(text, 0..Len(text), 0..Len(text))}

\* the five document counters of a statistics record
Counters(stats) ==
  <<stats.date_counts.day_first, stats.date_counts.month_first,
    stats.date_counts.ambiguous, stats.numbering.indian, stats.numbering.international>>

\* the counters that token k of the document has incremented
Raised(k) ==
  {c \in 1..5 : Counters(stats_trace[k + 1])[c] # Counters(stats_trace[k])[c]}

\* C22: every token with non-empty text has the hint of the first rule it
\* falls under, in the order glyph followed by a digit, currency word, glyph
\* anywhere, d/m/y date, ISO date, Indian-grouped number, international-grouped
\* number, other comma number, and no hint when it falls under none; a token
\* with empty text has no hint; a token increments at most one counter, by
\* one, and a token hinted as money increments none.
C22_FirstMatchingRule ==
  stats_trace # <<>> =>
    \A k \in 1..Len(document_tokens) :
      LET token == document_tokens[k]
          text == StrStrip(token.text)
          rule == SetMin(HintRules(text) \cup {9})
          hints == token.hints[1]
      IN  /\ \A c \in 1..5 :
               Counters(stats_trace[k + 1])[c] - Counters(stats_trace[k])[c] \in {0, 1}
          /\ Cardinality(Raised(k)) <= 1
          /\ text = "" => token.hints = None /\ stats_trace[k + 1] = stats_trace[k]
          /\ text # "" /\ rule = 9 => token.hints = None /\ stats_trace[k + 1] = stats_trace[k]
          /\ text # "" /\ rule < 9 =>
               /\ token.hints # None
               /\ hints.pattern = text
               /\ hints.maybe = IF rule <= 3 THEN "money" ELSE IF rule <= 5 THEN "date"
                                ELSE "number"
               /\ hints.maybe = "money" => Raised(k) = {}
               /\ hints.glyph
                    = IF rule = 1 THEN Some(CharAt(text, 1))
                      ELSE IF rule = 3
                      THEN Some(SelectSeq(<<"₹", "$", "€", "£">>,
                                          LAMBDA g : HasChar(text, g))[1])
                      ELSE None
               /\ hints.format = IF rule = 5 THEN Some("iso") ELSE None
               /\ hints.numbering_style
                    = IF rule = 6 THEN Some("indian")
                      ELSE IF rule = 7 THEN Some("international") ELSE None
               /\ CASE rule = 4 -> Cardinality(Raised(k)) = 1 /\ Raised(k) \subseteq 1..3
                    [] rule = 6 -> Raised(k) = {4}
                    [] rule = 7 -> Raised(k) = {5}
                    [] OTHER -> Raised(k) = {}
               /\ stats_trace[k + 1].currency_glyphs
                    = stats_trace[k].currency_glyphs
                        \cup (IF rule = 1 THEN {CharAt(text, 1)}
                              ELSE IF rule = 3 THEN {g \in Glyphs : HasChar(text, g)}
                              ELSE {})

\* the hinter has run over a document with a token of blanks, a token under
\* each of the eight rules and no earlier one, a token under the rules 1 and
\* 3 whose first glyph is not the first of the glyph list, and a token under
\* no rule
C22_TokenOfEveryRule ==
  /\ stats_trace # <<>>
  /\ \E k \in 1..Len(document_tokens) : StrStrip(document_tokens[k].text) = ""
  /\ \A r \in 1..9 :
       \E k \in 1..Len(document_tokens) :
         /\ StrStrip(document_tokens[k].text) # ""
         /\ SetMin(HintRules(StrStrip(document_tokens[k].text)) \cup {9}) = r
  /\ \E k \in 1..Len(document_tokens) :
       /\ document_tokens[k].text = "€5$"
       /\ document_tokens[k].hints # None
  /\ \E k \in 1..Len(document_tokens) :
       /\ HintRules(document_tokens[k].text) = {6, 8}
       /\ document_tokens[k].hints # None

\* text is a number in the Indian grouping convention: a leading group of one
\* or two digits, one two-digit group or more, and a final three-digit group
IndianConvention(text) ==
  /\ Len(PieceLens(text, {","})) >= 3
  /\ PiecesWithin(text, {","},
                  [k \in 1..Len(PieceLens(text, {","})) |->
                     IF k = 1 THEN 1..2
                     ELSE IF k = Len(PieceLens(text, {","})) THEN 3..3 ELSE 2..2])

\* C23: a number token written in the Indian grouping convention, such as
\* "1,00,000" or "12,34,567", increments the Indian counter and is hinted with
\* the Indian numbering style.
C23_IndianCounterIncremented ==
  stats_trace # <<>> =>
    \A k \in 1..Len(document_tokens) :
      IndianConvention(StrStrip(document_tokens[k].text)) =>
        /\ Raised(k) = {4}
        /\ document_tokens[k].hints # None
        /\ document_tokens[k].hints[1].numbering_style = Some("indian")

\* the date fields of a summary: what normalize_document reports for the
\* dates, with the matched format in the metadata
DateFieldsOfSummary(summary) ==
  IF summary = None THEN <<>>
  ELSE [f \in DOMAIN summary[1].fields \cap {"po_date", "invoice_date"} |->
          summary[1].fields[f]]

\* C24: the date fields of the summary that normalize_document has returned
\* for given candidates and hints (normalized value, matched format and
\* confidence) are the date fields of every summary that the call can return:
\* another run on the same input yields the same values.
C24_DatesDeterministic ==
  (call.fn = "normalize_document" /\ ret # None) =>
    \A other \in normalize_document(call.candidates, call.hints, call.tables) :
      DateFieldsOfSummary(other) = DateFieldsOfSummary(ret[1])

\* the trial rank of the family of a format under the day-first probability
\* p of the hints (None when unknown): the family is read off the first
\* directive of the format, %d day-first, %m month-first, %Y ISO
FamilyRank(fmt, p) ==
  LET month_first == p # None /\ 2 * p[1].n < p[1].d
  IN  CASE CharAt(fmt, 2) = "d" -> IF month_first THEN 2 ELSE 1
        [] CharAt(fmt, 2) = "m" -> IF month_first THEN 1 ELSE 2
        [] OTHER -> 3

\* the formats of the three lists that parse the cleaned text of raw
FormatsParsing(raw) ==
  {f \in SeqRange(DATE_FORMATS_DAY_FIRST \o DATE_FORMATS_MONTH_FIRST \o DATE_FORMATS_NEUTRAL) :
     Strptime(StrStrip(ReplaceDoubleSpace(StrReplace(StrStrip(raw), ",", " "))), f) # None}

\* the day-first probability of the hints of the call, None when unknown
ProbOfCall == IF call.hints = None THEN None ELSE call.hints[1].day_first_prob

\* confidence is max(p, 1 - p) for a known probability p and 0.9 otherwise
FirstPassConfidence(confidence, p) ==
  /\ confidence # None
  /\ IF p = None THEN confidence[1].n * 10 = 9 * confidence[1].d
     ELSE confidence[1].n * p[1].d = Max2(p[1].n, p[1].d - p[1].n) * confidence[1].d

\* the date field f of the returned summary has the format of a family that
\* is tried no later than the family of any format that parses the raw value
EarliestFamily(f) ==
  /\ "format" \in DOMAIN ret[1][1].fields[f].metadata
  /\ \A g \in FormatsParsing(call.candidates[f][1].value_raw) :
       FamilyRank(ret[1][1].fields[f].metadata["format"], ProbOfCall) <= FamilyRank(g, ProbOfCall)

\* C25 as stated: every date field of the summary with a normalized value has
\* the format of the family tried first among those that parse (month-first
\* before day-first exactly for a known probability below 0.5, ISO last) and
\* the confidence max(p, 1 - p), or 0.9 for an unknown probability.
C25_OrderAndConfidence ==
  (call.fn = "normalize_document" /\ ret # None /\ ret[1] # None) =>
    \A f \in {"po_date", "invoice_date"} :
      (call.candidates[f] # <<>> /\ ret[1][1].fields[f].normalized # None) =>
        /\ EarliestFamily(f)
        /\ FirstPassConfidence(ret[1][1].fields[f].confidence, ProbOfCall)

\* C25 amended: a date field whose raw value is parsed by a format of the
\* lists as it stands has the ISO date of the family tried first among those
\* that parse (month-first before day-first exactly for a known probability
\* below 0.5, ISO last) with confidence max(p, 1 - p), or 0.9 for an unknown
\* probability; a date field that only the retry with coerced separators
\* parses has confidence 0.8.
C25_FirstPassOrderAndConfidence ==
  (call.fn = "normalize_document" /\ ret # None /\ ret[1] # None) =>
    \A f \in {"po_date", "invoice_date"} :
      call.candidates[f] # <<>> =>
        LET field == ret[1][1].fields[f]
            raw == call.candidates[f][1].value_raw
        IN  IF FormatsParsing(raw) # {}
            THEN /\ EarliestFamily(f)
                 /\ field.metadata["format"] \in FormatsParsing(raw)
                 /\ field.normalized
                      = Some(IsoDate(Strptime(StrStrip(ReplaceDoubleSpace(
                                                StrReplace(StrStrip(raw), ",", " "))),
                                              field.metadata["format"])[1]))
                 /\ FirstPassConfidence(field.confidence, ProbOfCall)
            ELSE field.normalized # None => field.confidence = Some(Rat(8, 10))

\* a summary for the date "01/02/2024", which day-first and month-first
\* formats parse, under a probability of exactly 0.5
C25_AmbiguousDateAtHalf ==
  /\ call.fn = "normalize_document"
  /\ call.candidates["po_date"] # <<>>
  /\ call.candidates["po_date"][1].value_raw = "01/02/2024"
  /\ ProbOfCall = Some(Rat(1, 2))
  /\ ret # None /\ ret[1] # None
  /\ ret[1][1].fields["po_date"].normalized = Some("2024-02-01")

\* the field f of the returned summary has parsed to a number
ReturnedKnown(f) ==
  /\ f \in DOMAIN ret[1][1].fields
  /\ ret[1][1].fields[f].value_type = "number"

\* the status of the tolerance test of the returned grand total against the
\* returned recomputed total
ToleranceStatus ==
  IF DecLeq(DecAbs(DecSub(ReturnedGrand[1], ReturnedRecomputed[1])), Dec(1, 2))
  THEN "ok" ELSE "mismatch"

\* C26 as stated: the status of the returned totals is "insufficient" exactly
\* when the grand total is unknown and a subtotal, a tax or a recomputed total
\* exists; with a known grand total and a recomputed total it is "ok" or
\* "mismatch" by the tolerance test; in every other case, a known grand total
\* without a recomputed total among them, it is "missing".
C26_StatusClassification ==
  ReturnedTotals # None =>
    ReturnedTotals[1].status
      = IF ~ReturnedKnown("grand_total")
           /\ (ReturnedKnown("subtotal") \/ ReturnedKnown("tax_total")
               \/ ReturnedRecomputed # None)
        THEN "insufficient"
        ELSE IF ReturnedKnown("grand_total") /\ ReturnedRecomputed # None
        THEN ToleranceStatus
        ELSE "missing"

\* C26 amended: with a known grand total the status is "ok" or "mismatch" by
\* the tolerance test when a recomputed total exists and "insufficient" when
\* none exists; with an unknown grand total (absent or unparsed) it is
\* "insufficient" when a subtotal, a tax or a recomputed total exists and
\* "missing" when none does.
C26_StatusByGrandTotal ==
  ReturnedTotals # None =>
    ReturnedTotals[1].status
      = IF ReturnedKnown("grand_total")
        THEN (IF ReturnedRecomputed # None THEN ToleranceStatus ELSE "insufficient")
        ELSE IF ReturnedKnown("subtotal") \/ ReturnedKnown("tax_total")
                \/ ReturnedRecomputed # None
        THEN "insufficient"
        ELSE "missing"

\* totals were returned for a grand total that parsed, without a subtotal, a
\* tax or a table to recompute it from
C26_GrandTotalAlone ==
  /\ ReturnedTotals # None
  /\ ReturnedKnown("grand_total")
  /\ ~ReturnedKnown("subtotal") /\ ~ReturnedKnown("tax_total")
  /\ ReturnedRecomputed = None
  /\ ReturnedTotals[1].status = "insufficient"

\* the position of a zone type in the order header, body, footer
ZoneRank(zone_type) ==
  CASE zone_type = "header" -> 1 [] zone_type = "body" -> 2 [] zone_type = "footer" -> 3

\* the height of the zone of the given type among zs, 0 when zs has none
ZoneHeight(zs, zone_type) ==
  SeqSum([k \in 1..Len(zs) |->
            IF zs[k].zone_type = zone_type THEN zs[k].bbox[4] - zs[k].bbox[2] ELSE 0])

\* C27: the zones of a page of positive width and height come in the order
\* header, body, footer, each of positive height and from x = 0 to the page
\* width, each starting where the one before ends, the first at y = 0 and the
\* last ending at y = height; the header is floor(0.20 * height) high and the
\* footer floor(0.15 * height), a zone being left out exactly when that is 0;
\* a page of no width or no height has no zones.
C27_ZoneBanding ==
  pc \notin {"idle", "normalise_pages", "apply_token_hints", "build_zones"} =>
    /\ \A i, j \in 1..Len(zones) : i <= j => zones[i].page <= zones[j].page
    /\ \A z \in 1..Len(zones) : zones[z].page \in 1..Len(ocr)
    /\ \A p \in 1..Len(ocr) :
         LET zs == SelectSeq(zones, LAMBDA z : z.page = p)
             width == ocr[p].width
             height == ocr[p].height
         IN  IF width <= 0 \/ height <= 0 THEN zs = <<>>
             ELSE /\ zs # <<>>
                  /\ \A k \in 1..Len(zs) :
                       /\ zs[k].bbox[1] = 0 /\ zs[k].bbox[3] = width
                       /\ zs[k].bbox[4] - zs[k].bbox[2] > 0
                  /\ \A k \in 1..(Len(zs) - 1) :
                       /\ ZoneRank(zs[k].zone_type) < ZoneRank(zs[k + 1].zone_type)
                       /\ zs[k].bbox[4] = zs[k + 1].bbox[2]
                  /\ zs[1].bbox[2] = 0
                  /\ zs[Len(zs)].bbox[4] = height
                  /\ ZoneHeight(zs, "header") = (HeaderPercent * height) \div 100
                  /\ ZoneHeight(zs, "footer") = (FooterPercent * height) \div 100
                  /\ ZoneHeight(zs, "header") + ZoneHeight(zs, "footer") <= height
                  /\ (\E k \in 1..Len(zs) : zs[k].zone_type = "header")
                       <=> (HeaderPercent * height) \div 100 > 0
                  /\ (\E k \in 1..Len(zs) : zs[k].zone_type = "footer")
                       <=> (FooterPercent * height) \div 100 > 0

\* the zones were built for two pages, the first four pixels high with a
\* body only, the second six pixels high with a header and a body only
C27_HeaderWithoutFooter ==
  /\ pc = "detect_anchors"
  /\ Len(ocr) = 2
  /\ ocr[1].height = 4 /\ ocr[2].width = 800 /\ ocr[2].height = 6
  /\ Len(zones) = 3
  /\ zones[1].zone_type = "body" /\ zones[2].zone_type = "header"
  /\ zones[3].zone_type = "body"

\* the lines of the call are a run as _detect_tables hands it to the table
\* builder: two table-row candidates or more
RunOfTableLines ==
  /\ Len(call.rows) >= 2
  /\ \A k \in 1..Len(call.rows) : _is_table_line(StrStrip(RowText(call.rows[k])))

\* C28: a table built from a run of the table detector has two columns or
\* more, each with a non-empty header, and two rows or more, and
\* _detect_anomalies reports no "table_low_confidence" for it.
C28_TwoColumnsTwoRows ==
  (call.fn = "_build_table_from_blocks" /\ ret # None /\ RunOfTableLines /\ ret[1] # None) =>
    /\ ret[1][1].n_cols >= 2
    /\ ret[1][1].n_rows >= 2
    /\ Len(ret[1][1].column_headers) = ret[1][1].n_cols
    /\ \A c \in 1..Len(ret[1][1].column_headers) : ret[1][1].column_headers[c] # ""
    /\ \A found \in _detect_anomalies(<<>>, <<ret[1][1]>>, NoCandidates) :
         \A a \in 1..Len(found) : found[a].code # "table_low_confidence"

\* a table was built from a run of two lines whose header has two segments
C28_SmallestTable ==
  /\ call.fn = "_build_table_from_blocks"
  /\ RunOfTableLines
  /\ Len(call.rows) = 2 /\ call.rows[1] = <<"ITEM", "QTY">>
  /\ ret # None /\ ret[1] # None
  /\ ret[1][1].n_cols = 2 /\ ret[1][1].n_rows = 2

\* the tokens after are the tokens before, field by field, but for the hints
\* of the tokens that had none
SameButHints(before, after) ==
  /\ Len(after) = Len(before)
  /\ \A k \in 1..Len(before) :
       /\ [after[k] EXCEPT !.hints = before[k].hints] = before[k]
       /\ after[k].hints # before[k].hints => before[k].hints = None

\* the pages after are the pages before but for the hints of their tokens
\* and of the tokens of their blocks
PagesSameButHints(before, after) ==
  /\ Len(after) = Len(before)
  /\ \A p \in 1..Len(before) :
       /\ [after[p] EXCEPT !.tokens = before[p].tokens, !.blocks = before[p].blocks]
            = before[p]
       /\ SameButHints(before[p].tokens, after[p].tokens)
       /\ Len(after[p].blocks) = Len(before[p].blocks)
       /\ \A b \in 1..Len(before[p].blocks) :
            /\ [after[p].blocks[b] EXCEPT !.tokens = before[p].blocks[b].tokens]
                 = before[p].blocks[b]
            /\ SameButHints(before[p].blocks[b].tokens, after[p].blocks[b].tokens)

\* C29: once the normaliser has created the tokens, a step of the token
\* hinter changes no field of a token but hints, and that of a token without
\* hints only; the hinter runs right after the normaliser and not again, so
\* before the anchor and candidate stages; every later stage (zones, anchors,
\* tables, candidates, document hints, normalisation, fingerprint, anomalies
\* and the return) leaves every token, block and page as it is.
C29_StageFrame ==
  [][/\ pc' = "apply_token_hints" => pc = "normalise_pages"
     /\ pc = "apply_token_hints" =>
          /\ SameButHints(document_tokens, document_tokens')
          /\ PagesSameButHints(pages, pages')
          /\ pc' = "build_zones"
     /\ pc \notin {"normalise_pages", "apply_token_hints"} =>
          /\ document_tokens' = document_tokens
          /\ pages' = pages]_vars

\* a result was returned for a document with zones, a token of a blank line,
\* hinted tokens and tokens of text that the hinter left without hints
C29_AllStagesRan ==
  /\ pc = "done"
  /\ result # None
  /\ \E k \in 1..Len(document_tokens) : document_tokens[k].text = ""
  /\ \E k \in 1..Len(document_tokens) : document_tokens[k].hints # None
  /\ \E k \in 1..Len(document_tokens) :
       document_tokens[k].text # "" /\ document_tokens[k].hints = None
  /\ zones # <<>>

\* C30: when a request of extract_upload has ended, by a result, by an error
\* of the OCR or by the rejection 413 of an upload over the size limit, the
\* temporary file it has created is no longer in the temporary directory.
C30_TempFileRemoved ==
  \A r \in DOMAIN requests :
    requests[r].pc = "done" => r \notin DOMAIN temp_dir

====
